---- MODULE Spec2Model ----
(***************************************************************************)
(* CRT Spaceship: the game loop and entity-update core of index.html as    *)
(* documented in wiki/Code-Architecture.md (Game Mechanics section) and    *)
(* wiki/Performance-Tuning.md.                                             *)
(*                                                                         *)
(* Coordinates are fixed-point numbers in units of 1/5 pixel, the finest   *)
(* grain of an enemy speed (0.2 px per wave); a JavaScript double is       *)
(* replaced by this grid and products are truncated toward zero.           *)
(* One frame of loop() is the sequence of steps                            *)
(*   FrameBegin, SpawnEnemy, Shoot, Advance, Collide, Prune, Render        *)
(* and input events are handled only between two frames (pc = "idle").     *)
(*                                                                         *)
(* index.html itself is described, not contained, in the sources: every    *)
(* definition follows the code fragment or the description of the wiki     *)
(* that documents it.  Where the wiki is silent (the loop that creates     *)
(* the particles, the activity test of the collision pass) the design      *)
(* specification is followed.                                              *)
(***************************************************************************)
EXTENDS Integers, Sequences, FiniteSets, TLC

----------------------------------------------------------------------------
(* Bounds of the model *)

\* canvas size in pixels (window size at page load)
CanvasWidth == 50
CanvasHeight == 22
\* distance in pixels of the player's fixed y from the bottom of the canvas
PlayerMargin == 2
\* caps on live entities, applied in guards
MaxBullets == 2
MaxEnemies == 2
\* number of frames explored from every initial state
MaxFrames == 3
\* press-down events delivered between two frames
MaxPresses == 2
\* calls made to the AudioEngine
MaxAudioCalls == 4
\* entries of a log array given to encryptData
MaxEntries == 2
\* highest wave number of the late-session states
MaxLateWave == 120
\* page loads and frames of the high-score feature
MaxScoreCalls == 5
\* calls of the logging interface with a failing localStorage
MaxStoreCalls == 3
\* length of the log array given to the log analyzer
MaxAnalyzed == 3
\* calls of the logging interface after the logs of the earlier sessions
MaxLogCalls == 3
\* calls of monitorFPS, and changes of the frame time among them
MaxFpsCalls == 62
MaxSwitches == 1

----------------------------------------------------------------------------
(* Program constants *)

\* units per pixel: 1 / 0.2
Unit == 5
BulletSpeedPx == 10
EnemySizePx == 30
EnemySpawnYPx == -50
KillScore == 100
WaveThreshold == 1000
PlayerEdgePx == 20
\* interpolation factor 0.15 = 3 / 20
LerpNum == 3
LerpDen == 20
ParticleArea == 4000
ParticleCap == 200
ExplosionLife == 20
ExplosionParticles == 8

W == CanvasWidth * Unit
H == CanvasHeight * Unit

\* values of Math.random() * 2 in units (0.8 px and 1.8 px)
Jitters == {4}
\* values of the random spawn x of an enemy, in units
EnemyXs == {0, 100}
\* pointer / touch x coordinates, in units
InputXs == {0, W}
\* per-frame displacement of an ambient particle, in units
ParticleDrifts == {<<-W, 0>>, <<W, H + Unit>>}

VARIABLES
    gameActive,   \* gameActive flag
    audioCtx,     \* TRUE once AudioEngine.init() created the context
    overlay,      \* start overlay shown
    pc,           \* position in the frame callback
    player,       \* [x, y, targetX]
    input,        \* [x, isDown, tapped]
    bullets,      \* sequence of [x, y, active]
    enemies,      \* sequence of [x, y, speed, active]
    explosions,   \* sequence of [x, y, particles]
    particles,    \* sequence of [x, y]
    score,
    wave,
    hits,         \* pairs <<bullet index, enemy index>> hit in the last collision pass
    sounds,       \* sound events played in the current frame
    frame,        \* number of runs of the frame callback since the initial
                  \* state
    audioSupport, \* window.AudioContext || window.webkitAudioContext is defined
    error,        \* exception left uncaught by the last handler or call
    presses,      \* press-down events received and not yet answered by
                  \* the shooting step
    nodes,        \* audio nodes and buffers created from the audio context
    calls,        \* number of calls made to the interface under study
    storage,      \* localStorage item 'crt_spaceship_logs'
    logged,       \* the entries stored so far, in the order of their calls
    fpsHistory,   \* fpsHistory of monitorFPS
    sinceLow,     \* monitorFPS calls since the last low-FPS event
    frameTime,    \* time in ms between the last two monitorFPS calls
    switches,     \* number of times the frame time has changed
    pending,      \* frame callbacks requested and not yet run
    isPaused,     \* isPaused flag of the pause function
    highScore,    \* highScore of the high-score feature
    slot,         \* localStorage item 'crt_highscore'
    storageDenied, \* every access to localStorage throws
    arg,          \* input of the last pure-function evaluation
    res           \* its result

gameVars == <<gameActive, audioCtx, overlay, pc, player, input, bullets, enemies,
              explosions, particles, score, wave, hits, sounds, frame,
              audioSupport, error, presses, pending, isPaused>>
\* state of the AudioEngine and of GameTelemetry beyond the game's
telemetryVars == <<storage, logged, fpsHistory, sinceLow, frameTime, switches>>
\* state of the documented extensions and of the browser's storage
extVars == <<highScore, slot, storageDenied>>
libVars == <<nodes, calls, telemetryVars, extVars>>
vars == <<gameVars, arg, res, libVars>>

----------------------------------------------------------------------------
(* Arithmetic helpers *)

Min(a, b) == IF a < b THEN a ELSE b

\* division rounding toward zero (the fixed-point product of the lerp)
TruncDiv(a, b) == IF a >= 0 THEN a \div b ELSE -((-a) \div b)

\* smallest integer >= a / b, for a >= 0 and b > 0
CeilDiv(a, b) == (a + b - 1) \div b

\* mutant of SelectActive: the filter keeps every element
SelectEverything(s) == s

RECURSIVE SelectActive(_)
\* array.filter(o => o.active)
SelectActive(s) ==
    IF s = <<>> THEN <<>>
    ELSE IF Head(s).active THEN <<Head(s)>> \o SelectActive(Tail(s))
         ELSE SelectActive(Tail(s))

\* some sub-particle of the explosion has life left
Alive(x) == \E k \in DOMAIN x.particles : x.particles[k] > 0

RECURSIVE SelectAlive(_)
\* explosions.filter(e => some sub-particle has life left)
SelectAlive(s) ==
    IF s = <<>> THEN <<>>
    ELSE IF Alive(Head(s)) THEN <<Head(s)>> \o SelectAlive(Tail(s))
         ELSE SelectAlive(Tail(s))

----------------------------------------------------------------------------
(* Difficulty *)

\* mutant of EnemySpeed: the wave bonus is subtracted
EnemySpeedMinusWave(jitter, w) == jitter + Unit - w

\* (Math.random() * 2 + 1 + wave * 0.2) in units; jitter is Math.random() * 2
EnemySpeed(jitter, w) == jitter + Unit + w

\* 0.015 * wave, in thousandths
SpawnProbability(w) == 15 * w

\* values of Math.random() in thousandths
Randoms == {0, 990}

----------------------------------------------------------------------------
(* Entities *)

NewBullet(x, y) == [x |-> x, y |-> y, active |-> TRUE]

\* mutant of NewEnemy: the speed ignores the wave number
NewEnemyFirstWave(x, jitter, w) ==
    [x |-> x, y |-> EnemySpawnYPx * Unit, speed |-> EnemySpeed(jitter, 1),
     active |-> TRUE]

\* new Enemy(): y = -50, speed = Math.random() * 2 + 1 + wave * 0.2
NewEnemy(x, jitter, w) ==
    [x |-> x, y |-> EnemySpawnYPx * Unit, speed |-> EnemySpeed(jitter, w),
     active |-> TRUE]

\* new Explosion(x, y): 8 sub-particles of life 1.0, in twentieths
NewExplosion(x, y) ==
    [x |-> x, y |-> y,
     particles |-> [k \in 1..ExplosionParticles |-> ExplosionLife]]

\* mutant of BulletUpdate: a bullet at y = 0 is deactivated too
BulletUpdateAtZero(b) ==
    LET ny == b.y - BulletSpeedPx * Unit
    IN  [b EXCEPT !.y = ny, !.active = IF ny <= 0 THEN FALSE ELSE b.active]

\* Bullet.update(): move up, deactivate above the top edge
\* mutant of BulletUpdate: a bullet is never deactivated at the top
BulletUpdateNoExit(b) == [b EXCEPT !.y = b.y - BulletSpeedPx * Unit]

BulletUpdate(b) ==
    LET ny == b.y - BulletSpeedPx * Unit
    IN  [b EXCEPT !.y = ny, !.active = IF ny < 0 THEN FALSE ELSE b.active]

\* mutant of EnemyUpdate: an enemy at y = height is deactivated too
EnemyUpdateAtEdge(e) ==
    LET ny == e.y + e.speed
    IN  [e EXCEPT !.y = ny, !.active = IF ny >= H THEN FALSE ELSE e.active]

\* Enemy.update(): move down, deactivate below the bottom edge
EnemyUpdate(e) ==
    LET ny == e.y + e.speed
    IN  [e EXCEPT !.y = ny, !.active = IF ny > H THEN FALSE ELSE e.active]

\* mutant of ExplosionUpdate: every sub-particle loses 0.1 life
ExplosionUpdateFast(x) ==
    [x EXCEPT !.particles = [k \in DOMAIN x.particles |-> x.particles[k] - 2]]

\* Explosion.update(): every sub-particle loses 0.05 life
ExplosionUpdate(x) ==
    [x EXCEPT !.particles = [k \in DOMAIN x.particles |-> x.particles[k] - 1]]

\* wrap at the screen edges
Wrap(v, max) == IF v < 0 THEN max ELSE IF v > max THEN 0 ELSE v

\* Particle.update(): drift by d, wrap around the edges
ParticleUpdate(p, d) == [x |-> Wrap(p.x + d[1], W), y |-> Wrap(p.y + d[2], H)]

RECURSIVE DropOffScreen(_, _, _)
\* mutant of UpdateParticles: a particle leaving the screen is removed
\* instead of wrapped
DropOffScreen(ps, d, i) ==
    IF i > Len(ps) THEN <<>>
    ELSE LET nx == ps[i].x + d[i][1]
             ny == ps[i].y + d[i][2]
         IN  IF nx < 0 \/ nx > W \/ ny < 0 \/ ny > H
             THEN DropOffScreen(ps, d, i + 1)
             ELSE <<[x |-> nx, y |-> ny]>> \o DropOffScreen(ps, d, i + 1)

UpdateParticlesDrop(ps, d) == DropOffScreen(ps, d, 1)

\* particles.forEach(p => p.update(...)): no particle is created or removed
UpdateParticles(ps, d) == [i \in DOMAIN ps |-> ParticleUpdate(ps[i], d[i])]

\* const count = Math.min((width * height) / 4000, 200), as the pair
\* numerator / denominator of the quotient in pixels
ParticleCountNum == Min(CanvasWidth * CanvasHeight, ParticleCap * ParticleArea)

\* initParticles(): for (i = 0; i < count; i++) particles.push(new Particle())
InitParticles ==
    [i \in 1..CeilDiv(ParticleCountNum, ParticleArea) |-> [x |-> 0, y |-> 0]]

\* mutant of PlayerClamp: the position is not clamped
PlayerClampOff(x) == x

\* player.x += (targetX - player.x) * 0.15, then clamp 20px from the edges
PlayerClamp(x) ==
    IF x < PlayerEdgePx * Unit THEN PlayerEdgePx * Unit
    ELSE IF x > W - PlayerEdgePx * Unit THEN W - PlayerEdgePx * Unit
    ELSE x

PlayerUpdate(p, tx) ==
    [p EXCEPT !.targetX = tx,
              !.x = PlayerClamp(p.x + TruncDiv((tx - p.x) * LerpNum, LerpDen))]

----------------------------------------------------------------------------
(* Collision detection *)

\* mutant of Hit: the comparisons include the boundary
HitInclusive(b, e) ==
    /\ b.x >= e.x
    /\ b.x <= e.x + EnemySizePx * Unit
    /\ b.y >= e.y
    /\ b.y <= e.y + EnemySizePx * Unit

\* the bullet's point lies inside the enemy's bounding box
Hit(b, e) ==
    /\ b.x > e.x
    /\ b.x < e.x + EnemySizePx * Unit
    /\ b.y > e.y
    /\ b.y < e.y + EnemySizePx * Unit

\* the test is made between active bullets and active enemies
BothActive(b, e) == b.active /\ e.active

\* mutant of WaveCheck: the wave advances when the threshold is reached
WaveCheckAtThreshold(sc, w) == IF sc >= w * WaveThreshold THEN w + 1 ELSE w

\* mutant of WaveCheck: the wave is computed from the score
WaveCheckFloor(sc, w) == 1 + (sc \div WaveThreshold)

\* wave progression: score exceeds wave * 1000; the test follows the only
\* statement that changes the score
WaveCheck(sc, w) == IF sc > w * WaveThreshold THEN w + 1 ELSE w

\* mutant of OnCollision: the bullet is left active
OnCollisionKeepBullet(st, i, j) ==
    LET sc == st.score + KillScore
    IN  [bullets    |-> st.bullets,
         enemies    |-> [st.enemies EXCEPT ![j].active = FALSE],
         explosions |-> Append(st.explosions,
                               NewExplosion(st.enemies[j].x, st.enemies[j].y)),
         score      |-> sc,
         wave       |-> WaveCheck(sc, st.wave),
         hits       |-> st.hits \cup {<<i, j>>},
         sounds     |-> Append(st.sounds, "explosion")]

\* mutant of OnCollision: the score is decremented
OnCollisionPenalty(st, i, j) ==
    LET sc == st.score - KillScore
    IN  [bullets    |-> [st.bullets EXCEPT ![i].active = FALSE],
         enemies    |-> [st.enemies EXCEPT ![j].active = FALSE],
         explosions |-> Append(st.explosions,
                               NewExplosion(st.enemies[j].x, st.enemies[j].y)),
         score      |-> sc,
         wave       |-> WaveCheck(sc, st.wave),
         hits       |-> st.hits \cup {<<i, j>>},
         sounds     |-> Append(st.sounds, "explosion")]

\* mutant of OnCollision: the enemy is left active
OnCollisionKeepEnemy(st, i, j) ==
    LET sc == st.score + KillScore
    IN  [bullets    |-> [st.bullets EXCEPT ![i].active = FALSE],
         enemies    |-> st.enemies,
         explosions |-> Append(st.explosions,
                               NewExplosion(st.enemies[j].x, st.enemies[j].y)),
         score      |-> sc,
         wave       |-> WaveCheck(sc, st.wave),
         hits       |-> st.hits \cup {<<i, j>>},
         sounds     |-> Append(st.sounds, "explosion")]

\* On Collision: enemy and bullet inactive, score += 100, explosion, sound
OnCollision(st, i, j) ==
    LET sc == st.score + KillScore
    IN  [bullets    |-> [st.bullets EXCEPT ![i].active = FALSE],
         enemies    |-> [st.enemies EXCEPT ![j].active = FALSE],
         explosions |-> Append(st.explosions,
                               NewExplosion(st.enemies[j].x, st.enemies[j].y)),
         score      |-> sc,
         wave       |-> WaveCheck(sc, st.wave),
         hits       |-> st.hits \cup {<<i, j>>},
         sounds     |-> Append(st.sounds, "explosion")]

RECURSIVE CollisionLoop(_, _)
\* enemies.forEach(e => bullets.forEach(b => check)): step k of the double loop
CollisionLoop(st, k) ==
    LET nb == Len(st.bullets)
        ne == Len(st.enemies)
        j  == ((k - 1) \div nb) + 1
        i  == ((k - 1) % nb) + 1
    IN  IF nb = 0 \/ k > nb * ne THEN st
        ELSE IF BothActive(st.bullets[i], st.enemies[j])
                /\ Hit(st.bullets[i], st.enemies[j])
             THEN CollisionLoop(OnCollision(st, i, j), k + 1)
             ELSE CollisionLoop(st, k + 1)

CollisionPass ==
    CollisionLoop([bullets |-> bullets, enemies |-> enemies,
                   explosions |-> explosions, score |-> score, wave |-> wave,
                   hits |-> {}, sounds |-> sounds], 1)

----------------------------------------------------------------------------
(* AudioEngine *)

\* AudioEngine.init(): this.ctx = new AudioContext(); without a constructor
\* (no AudioContext, no webkitAudioContext) the new expression throws
AudioEngineInit(support) ==
    IF support THEN [ctx |-> TRUE, error |-> "none"]
    ELSE [ctx |-> FALSE, error |-> "TypeError"]

\* a node or buffer made by call c: out is the index of the node it is
\* connected to (0 for ctx.destination, -1 when not connected), buffer the
\* index of its AudioBuffer (0 for none); starts and stops count the calls
\* of start() and stop()
AudioNode(kind, c, out, buffer) ==
    [kind |-> kind, call |-> c, out |-> out, buffer |-> buffer,
     starts |-> 0, stops |-> 0]

\* node.start()
StartNode(ns, i) == [ns EXCEPT ![i].starts = @ + 1]

\* node.stop(when)
StopNode(ns, i) == [ns EXCEPT ![i].stops = @ + 1]

\* playShoot(): oscillator -> gain -> destination, started and stopped
PlayShoot(ctx, ns, c) ==
    IF ~ctx THEN [nodes |-> ns, error |-> "TypeError"]
    ELSE LET osc  == Len(ns) + 1
             gain == Len(ns) + 2
             made == ns \o <<AudioNode("oscillator", c, gain, 0),
                             AudioNode("gain", c, 0, 0)>>
         IN  [nodes |-> StopNode(StartNode(made, osc), osc), error |-> "none"]

\* index of the first buffer source among ns, 0 if there is none
FirstSource(ns) ==
    IF \E i \in DOMAIN ns : ns[i].kind = "source"
    THEN CHOOSE i \in DOMAIN ns :
            /\ ns[i].kind = "source"
            /\ \A k \in DOMAIN ns : ns[k].kind = "source" => i <= k
    ELSE 0

\* mutant of PlayExplosion: the noise source of the first call is kept and
\* started again by the later calls
PlayExplosionShared(ctx, ns, c) ==
    IF ~ctx THEN [nodes |-> ns, error |-> "TypeError"]
    ELSE IF FirstSource(ns) # 0
    THEN [nodes |-> StartNode(ns, FirstSource(ns)), error |-> "none"]
    ELSE LET buffer == Len(ns) + 1
             noise  == Len(ns) + 2
             gain   == Len(ns) + 3
             filter == Len(ns) + 4
             made   == ns \o <<AudioNode("buffer", c, -1, 0),
                               AudioNode("source", c, filter, buffer),
                               AudioNode("gain", c, 0, 0),
                               AudioNode("filter", c, gain, 0)>>
         IN  [nodes |-> StartNode(made, noise), error |-> "none"]

\* playExplosion(): noise buffer, buffer source -> lowpass filter -> gain
\* -> destination, started
PlayExplosion(ctx, ns, c) ==
    IF ~ctx THEN [nodes |-> ns, error |-> "TypeError"]
    ELSE LET buffer == Len(ns) + 1
             noise  == Len(ns) + 2
             gain   == Len(ns) + 3
             filter == Len(ns) + 4
             made   == ns \o <<AudioNode("buffer", c, -1, 0),
                               AudioNode("source", c, filter, buffer),
                               AudioNode("gain", c, 0, 0),
                               AudioNode("filter", c, gain, 0)>>
         IN  [nodes |-> StartNode(made, noise), error |-> "none"]

\* playAmbience(): oscillator -> gain -> destination, started, never stopped
PlayAmbience(ctx, ns, c) ==
    IF ~ctx THEN [nodes |-> ns, error |-> "TypeError"]
    ELSE LET osc  == Len(ns) + 1
             gain == Len(ns) + 2
             made == ns \o <<AudioNode("oscillator", c, gain, 0),
                             AudioNode("gain", c, 0, 0)>>
         IN  [nodes |-> StartNode(made, osc), error |-> "none"]

\* getWebGLInfo(): gl is the context of a scratch canvas (absent without
\* WebGL), ext the WEBGL_debug_renderer_info extension
GetWebGLInfo(gl, ext) ==
    IF ~gl
    THEN [supported |-> FALSE, renderer |-> "Unknown", vendor |-> "Unknown"]
    ELSE [supported |-> TRUE,
          renderer  |-> IF ext THEN "UNMASKED_RENDERER_WEBGL" ELSE "Unknown",
          vendor    |-> IF ext THEN "UNMASKED_VENDOR_WEBGL" ELSE "Unknown",
          version   |-> "VERSION",
          maxTextureSize |-> "MAX_TEXTURE_SIZE"]

----------------------------------------------------------------------------
(* GameTelemetry: log encryption *)

(* A string is the sequence of its UTF-16 code units.  A Base64 text is the *)
(* sequence of its digits 0..63 in the alphabet A-Z a-z 0-9 + /, with Pad   *)
(* for the character "=".  A log entry is reduced to its type and message   *)
(* (session id, timestamp, data and url are left out).                      *)

\* 'CRT_SPACESHIP_LOG_KEY_2024'
ENCRYPTION_KEY == 
    <<67, 82, 84, 95, 83, 80, 65, 67,
      69, 83, 72, 73, 80, 95, 76, 79, 71, 95, 75, 69, 89, 95, 50, 48, 50, 52>>

MAX_LOGS == 100

\* the Base64 padding character
Pad == 64

\* the string whose code units are f[1], ..., f[Len(f)]
String(f) == SubSeq(f, 1, Len(f))

RECURSIVE Xor(_, _)
\* a ^ b on non-negative integers
Xor(a, b) ==
    IF a = 0 THEN b
    ELSE IF b = 0 THEN a
    ELSE ((a + b) % 2) + 2 * Xor(a \div 2, b \div 2)

\* the loop of encryptData and decryptData:
\* s.charCodeAt(i) ^ ENCRYPTION_KEY.charCodeAt(i % ENCRYPTION_KEY.length)
XorKey(s) ==
    String([i \in 1..Len(s) |->
        Xor(s[i], ENCRYPTION_KEY[((i - 1) % Len(ENCRYPTION_KEY)) + 1])])

ByteAt(s, i) == IF i <= Len(s) THEN s[i] ELSE 0

\* btoa(s): throws on a code unit above 255; three bytes give four digits
Btoa(s) ==
    IF \E i \in DOMAIN s : s[i] > 255 THEN [ok |-> FALSE, val |-> <<>>]
    ELSE [ok  |-> TRUE,
          val |-> String([p \in 1..(4 * ((Len(s) + 2) \div 3)) |->
                     LET g == (p - 1) \div 4
                         k == (p - 1) % 4
                         v == ByteAt(s, 3 * g + 1) * 65536
                                + ByteAt(s, 3 * g + 2) * 256
                                + ByteAt(s, 3 * g + 3)
                     IN  IF k > 1 /\ 3 * g + k > Len(s) THEN Pad
                         ELSE CASE k = 0 -> v \div 262144
                                [] k = 1 -> (v \div 4096) % 64
                                [] k = 2 -> (v \div 64) % 64
                                [] k = 3 -> v % 64])]

\* the bytes of a Base64 text made of whole groups of four digits
DecodeQuads(t) ==
    LET pads == Cardinality({p \in {Len(t) - 1, Len(t)} :
                                p \in DOMAIN t /\ t[p] = Pad})
    IN  String([i \in 1..(3 * (Len(t) \div 4) - pads) |->
            LET g == (i - 1) \div 3
                k == (i - 1) % 3
                c(j) == IF t[4 * g + j] = Pad THEN 0 ELSE t[4 * g + j]
                v == c(1) * 262144 + c(2) * 4096 + c(3) * 64 + c(4)
            IN  CASE k = 0 -> v \div 65536
                  [] k = 1 -> (v \div 256) % 256
                  [] k = 2 -> v % 256])

\* padding stands at the end of the text only, at most twice
WellPadded(t) ==
    \A p \in DOMAIN t : t[p] = Pad => (p > Len(t) - 2 /\ (p = Len(t) \/ t[p + 1] = Pad))

\* atob(t): throws on a malformed text
Atob(t) ==
    IF Len(t) % 4 # 0 \/ ~WellPadded(t) THEN [ok |-> FALSE, val |-> <<>>]
    ELSE [ok |-> TRUE, val |-> DecodeQuads(t)]

\* Buffer.from(t, 'base64').toString('binary'): never throws, decodes the
\* whole groups of the text
BufferFromBase64(t) ==
    IF WellPadded(t) THEN DecodeQuads(SubSeq(t, 1, Len(t) - (Len(t) % 4)))
    ELSE <<>>

\* the fixed parts of the JSON text of an entry
EntryOpen == <<123, 34, 116, 121, 112, 101, 34, 58, 34>>
EntryMid == <<34, 44, 34, 109, 101, 115, 115, 97, 103, 101, 34, 58, 34>>
EntryClose == <<34, 125>>

RECURSIVE Escape(_)
\* the characters of a JSON string literal: " and \ are escaped
Escape(m) ==
    IF m = <<>> THEN <<>>
    ELSE (IF Head(m) \in {34, 92} THEN <<92, Head(m)>> ELSE <<Head(m)>>)
         \o Escape(Tail(m))

\* {"type":"...","message":"..."}
StringifyEntry(e) ==
    EntryOpen \o Escape(e.type) \o EntryMid
        \o Escape(e.message) \o EntryClose

RECURSIVE StringifyEntries(_, _, _)
\* the entries lo..hi of d, separated by commas
StringifyEntries(d, lo, hi) ==
    IF lo > hi THEN <<>>
    ELSE IF lo = hi THEN StringifyEntry(d[lo])
    ELSE LET mid == (lo + hi) \div 2
         IN  StringifyEntries(d, lo, mid) \o <<44>>
                 \o StringifyEntries(d, mid + 1, hi)

\* JSON.stringify(d) of an array of log entries
Stringify(d) == <<91>> \o StringifyEntries(d, 1, Len(d)) \o <<93>>

\* text s holds the literal lit at position i
Match(s, i, lit) ==
    /\ i + Len(lit) - 1 <= Len(s)
    /\ \A k \in DOMAIN lit : s[i + k - 1] = lit[k]

ParseFail == [ok |-> FALSE, val |-> <<>>, next |-> 0]

RECURSIVE ParseString(_, _, _)
\* the string literal whose first character stands at i, up to its closing
\* quote; a raw control character or an unknown escape is a SyntaxError
ParseString(s, i, acc) ==
    IF i > Len(s) \/ s[i] < 32 THEN ParseFail
    ELSE IF s[i] = 34 THEN [ok |-> TRUE, val |-> acc, next |-> i + 1]
    ELSE IF s[i] = 92
         THEN IF i + 1 <= Len(s) /\ s[i + 1] \in {34, 92}
              THEN ParseString(s, i + 2, Append(acc, s[i + 1]))
              ELSE ParseFail
    ELSE ParseString(s, i + 1, Append(acc, s[i]))

\* the entry that starts at i
ParseEntry(s, i) ==
    IF ~Match(s, i, EntryOpen) THEN ParseFail
    ELSE LET t == ParseString(s, i + 9, <<>>)
         IN  IF ~t.ok \/ ~Match(s, t.next - 1, EntryMid) THEN ParseFail
             ELSE LET m == ParseString(s, t.next - 1 + 13, <<>>)
                  IN  IF ~m.ok \/ ~Match(s, m.next - 1, EntryClose) THEN ParseFail
                      ELSE [ok   |-> TRUE,
                            val  |-> [type |-> t.val, message |-> m.val],
                            next |-> m.next + 1]

\* the positions of s at which an entry begins: inside a string literal
\* every quote is escaped, so the opening of an entry cannot occur there
EntryStarts(s) == {i \in DOMAIN s : Match(s, i, EntryOpen)}

RECURSIVE ParseEntries(_, _, _, _)
\* the entries that begin at the positions lo..hi-1 of s (starts are the
\* positions at which an entry begins); next is the position behind the
\* last of them
ParseEntries(s, starts, lo, hi) ==
    LET in == {i \in starts : lo <= i /\ i < hi}
    IN  IF Cardinality(in) <= 1
        THEN LET e == ParseEntry(s, lo)
             IN  [ok |-> e.ok, val |-> <<e.val>>, next |-> e.next]
        ELSE LET mid == CHOOSE m \in in :
                           Cardinality({i \in in : i < m}) = Cardinality(in) \div 2
                 l   == ParseEntries(s, starts, lo, mid)
                 r   == ParseEntries(s, starts, mid, hi)
             IN  IF l.ok /\ r.ok /\ l.next + 1 = mid /\ s[l.next] = 44
                 THEN [ok |-> TRUE, val |-> l.val \o r.val, next |-> r.next]
                 ELSE ParseFail

\* JSON.parse(s) of the text of an array of log entries
Parse(s) ==
    IF s = <<91, 93>> THEN [ok |-> TRUE, val |-> <<>>, next |-> 3]
    ELSE IF Len(s) < 2 \/ s[1] # 91 THEN ParseFail
    ELSE LET r == ParseEntries(s, EntryStarts(s), 2, Len(s) + 1)
         IN  IF r.ok /\ r.next = Len(s) /\ s[r.next] = 93 THEN r
             ELSE ParseFail

\* encryptData(data): ok is FALSE when btoa throws
EncryptData(data) == Btoa(XorKey(Stringify(data)))

\* decryptData(encryptedStr) of telemetry.js: ok is FALSE for the null that
\* the catch block returns
DecryptData(encryptedStr) ==
    LET decoded == Atob(encryptedStr)
    IN  IF ~decoded.ok THEN [ok |-> FALSE, val |-> <<>>]
        ELSE LET p == Parse(XorKey(decoded.val))
             IN  [ok |-> p.ok, val |-> p.val]

\* decryptData(encryptedStr) of the log analyzer
AnalyzerDecryptData(encryptedStr) ==
    LET p == Parse(XorKey(BufferFromBase64(encryptedStr)))
    IN  [ok |-> p.ok, val |-> p.val]

----------------------------------------------------------------------------
(* GameTelemetry: log storage and FPS monitor *)

\* localStorage.getItem() returns null
NoItem == [present |-> FALSE, val |-> <<>>]

Item(text) == [present |-> TRUE, val |-> text]

\* the array read from the item: decryptData(stored), and [] without an
\* item or when decryptData returns null
StoredLogs(st) ==
    LET decrypted == DecryptData(st.val)
    IN  IF st.present /\ decrypted.ok THEN decrypted.val ELSE <<>>

\* existingLogs.slice(-MAX_LOGS) of an array longer than MAX_LOGS
Latest(logs) ==
    IF Len(logs) > MAX_LOGS
    THEN SubSeq(logs, Len(logs) - MAX_LOGS + 1, Len(logs))
    ELSE logs

\* the first MAX_LOGS entries of an array longer than MAX_LOGS
Oldest(logs) == IF Len(logs) > MAX_LOGS THEN SubSeq(logs, 1, MAX_LOGS) ELSE logs

\* localStorage.setItem(LOG_STORAGE_KEY, encrypted); an exception of
\* encryptData is caught and leaves the item as it is
SetItem(st, encrypted) ==
    IF encrypted.ok THEN [ok |-> TRUE, item |-> Item(encrypted.val)]
    ELSE [ok |-> FALSE, item |-> st]

\* mutant of StoreLogs: the first MAX_LOGS entries are kept
StoreLogsKeepOldest(st, newLogs) ==
    SetItem(st, EncryptData(Oldest(StoredLogs(st) \o newLogs)))

\* storeLogs(newLogs): read, concat, slice(-MAX_LOGS), encrypt, write
StoreLogs(st, newLogs) ==
    SetItem(st, EncryptData(Latest(StoredLogs(st) \o newLogs)))

LogEntry(type, message) == [type |-> type, message |-> message]

\* logEvent(type, message): storeLogs([logEntry])
LogEvent(st, type, message) == StoreLogs(st, <<LogEntry(type, message)>>)

\* getLogs(): decryptData(stored) || []
GetLogs(st) == StoredLogs(st)

\* the types 'event', 'error' and 'performance'
TypeEvent == <<101, 118, 101, 110, 116>>
TypeError == <<101, 114, 114, 111, 114>>
TypePerformance == <<112, 101, 114, 102, 111, 114, 109, 97, 110, 99, 101>>

\* 'Low FPS detected'
LowFpsMessage == <<76, 111, 119, 32, 70, 80, 83, 32, 100, 101, 116, 101, 99, 116, 101, 100>>

FpsWindow == 60
LowFps == 30
MinSamples == 30

\* Math.round(a / b) for a >= 0 and b > 0
RoundDiv(a, b) == (2 * a + b) \div (2 * b)

RECURSIVE Sum(_)
\* fpsHistory.reduce((a, b) => a + b, 0)
Sum(h) == IF h = <<>> THEN 0 ELSE Head(h) + Sum(Tail(h))

\* mutant of MonitorFPSStep: the number of samples is not tested
MonitorFPSNoMinimum(h, delta) ==
    LET fps    == RoundDiv(1000, delta)
        pushed == Append(h, fps)
        kept   == IF Len(pushed) > FpsWindow THEN Tail(pushed) ELSE pushed
        avg    == RoundDiv(Sum(kept), Len(kept))
        low    == avg < LowFps
    IN  [history |-> IF low THEN <<>> ELSE kept, avgFPS |-> avg, low |-> low,
         fps |-> fps]

\* monitorFPS() with delta ms since the last call: push, shift, average,
\* low-FPS test, reset
MonitorFPSStep(h, delta) ==
    LET fps    == RoundDiv(1000, delta)
        pushed == Append(h, fps)
        kept   == IF Len(pushed) > FpsWindow THEN Tail(pushed) ELSE pushed
        avg    == RoundDiv(Sum(kept), Len(kept))
        low    == avg < LowFps /\ Len(kept) >= MinSamples
    IN  [history |-> IF low THEN <<>> ELSE kept, avgFPS |-> avg, low |-> low,
         fps |-> fps]

----------------------------------------------------------------------------
(* State machine *)

\* the state after page load: resize(), initParticles(), loop not started
Boot ==
    /\ gameActive = FALSE
    /\ audioCtx = FALSE
    /\ audioSupport \in BOOLEAN
    /\ overlay = TRUE
    /\ pc = "boot"
    /\ player = [x |-> W \div 2, y |-> H - PlayerMargin * Unit, targetX |-> 0]
    /\ enemies = <<>>
    /\ score = 0

\* Enemies of a running session, as they stand between two frames: spawned
\* at y = -50px in wave 1 with jitter 0.8 (speed 2px = 10 units) and advanced
\* once per frame since; k is the number of frames since the spawn.
SessionEnemy(x, k) ==
    [x |-> x, y |-> EnemySpawnYPx * Unit + k * EnemySpeed(4, 1),
     speed |-> EnemySpeed(4, 1), active |-> TRUE]

\* ages (in frames) of the enemies of the mid-session states
SessionAges == {14, 22, 29, 35}

\* at most one enemy is spawned per frame and the list keeps spawn order:
\* the older enemy comes first
SessionEnemies ==
    {<<>>}
    \cup {<<SessionEnemy(x, k)>> : x \in EnemyXs, k \in SessionAges}
    \cup {<<SessionEnemy(q[1], q[3]), SessionEnemy(q[2], q[4])>> :
             q \in {r \in EnemyXs \X EnemyXs \X SessionAges \X SessionAges :
                       r[3] > r[4]}}

\* The game is active between two frames and the player rests at a clamped
\* position.
Running ==
    /\ gameActive = TRUE
    /\ audioCtx = TRUE
    /\ audioSupport = TRUE
    /\ overlay = FALSE
    /\ pc = "idle"
    /\ \E px \in {PlayerEdgePx * Unit, W - PlayerEdgePx * Unit} :
          player = [x |-> px, y |-> H - PlayerMargin * Unit, targetX |-> px]

\* A state between two frames of a running session: the player rests at a
\* clamped position, no bullet is in flight, the last explosion has expired,
\* 9 enemies have been destroyed so far (9 kills do not reach the first
\* wave threshold).  Each of these states is reached from Boot by
\* play: a kill cycle (spawn, descent, tap, hit, 20 frames of explosion)
\* returns to an empty field with 100 points more, and 35 frames with the
\* pointer held at one edge and two spawns give every pair of enemies.
MidSession ==
    /\ Running
    /\ enemies \in SessionEnemies
    /\ score = 9 * KillScore

\* what every session starts from, at page load and between two frames of
\* play alike: no pointer pressed, no bullet in flight, nothing recorded
InitRest ==
    /\ input = [x |-> 0, isDown |-> FALSE, tapped |-> FALSE]
    /\ bullets = <<>>
    /\ particles = InitParticles
    /\ hits = {}
    /\ pending = IF pc = "idle" THEN 1 ELSE 0
    /\ isPaused = FALSE
    /\ sounds = <<>>
    /\ frame = 0
    /\ error = "none"
    /\ presses = 0
    /\ nodes = <<>>
    /\ calls = 0
    /\ arg = <<>>
    /\ res = <<>>

\* no high score is stored and localStorage is accessible
InitExt ==
    /\ highScore = 0
    /\ slot = NoItem
    /\ storageDenied = FALSE

InitGame ==
    /\ Boot \/ MidSession
    /\ explosions = <<>>
    /\ wave = 1
    /\ InitRest
    /\ InitExt

\* no log is stored yet, monitorFPS has not been called
InitTelemetry ==
    /\ storage = NoItem
    /\ logged = <<>>
    /\ fpsHistory = <<>>
    /\ sinceLow = 0
    /\ frameTime = 0
    /\ switches = 0

Init == InitGame /\ InitTelemetry

\* between two frames (or before the start) the event handlers may run
BetweenFrames == pc \in {"boot", "idle"}

sessionVars == <<gameActive, audioCtx, overlay, audioSupport, error, isPaused>>
entityVars == <<bullets, enemies, explosions, particles>>
counterVars == <<score, wave>>
pureVars == <<arg, res, libVars>>

\* handleInputStart(): mouse down / touch start
HandleInputStart(x) ==
    /\ BetweenFrames
    /\ Len(bullets) < MaxBullets
    /\ presses < MaxPresses
    /\ input' = [x |-> x, isDown |-> TRUE, tapped |-> TRUE]
    /\ presses' = presses + 1
    /\ UNCHANGED <<sessionVars, entityVars, counterVars, pureVars, pc, player,
                   hits, sounds, frame, pending>>

\* handleInputMove(): mouse move / touch move
HandleInputMove(x) ==
    /\ BetweenFrames
    /\ input' = [input EXCEPT !.x = x]
    /\ presses' = presses
    /\ UNCHANGED <<sessionVars, entityVars, counterVars, pureVars, pc, player,
                   hits, sounds, frame, pending>>

\* handleInputEnd(): mouse up / touch end
HandleInputEnd ==
    /\ BetweenFrames
    /\ input.isDown
    /\ input' = [input EXCEPT !.isDown = FALSE]
    /\ presses' = presses
    /\ UNCHANGED <<sessionVars, entityVars, counterVars, pureVars, pc, player,
                   hits, sounds, frame, pending>>

\* mutant of StartGame: the loop is started without AudioEngine.init()
StartGameSilent ==
    /\ pc = "boot"
    /\ overlay' = FALSE
    /\ gameActive' = TRUE
    /\ pc' = "begin"
    /\ UNCHANGED <<entityVars, counterVars, pureVars, player, input, hits,
                   sounds, frame, pending, audioSupport, presses, audioCtx, error,
                   isPaused>>

\* the user clicks start: audio init, overlay hidden, game active, loop()
StartGame ==
    /\ pc = "boot"
    /\ LET a == AudioEngineInit(audioSupport)
       IN  IF a.error = "none"
           THEN /\ audioCtx' = a.ctx
                /\ overlay' = FALSE
                /\ gameActive' = TRUE
                /\ pc' = "begin"
                /\ error' = error
           ELSE /\ error' = a.error
                /\ UNCHANGED <<gameActive, audioCtx, overlay, pc>>
    /\ UNCHANGED <<entityVars, counterVars, pureVars, player, input, hits,
                   sounds, frame, pending, isPaused, audioSupport, presses>>

\* loop() steps 1-4: delta time, FPS display, clear, player position
FrameBegin ==
    /\ pc \in {"begin", "idle"}
    /\ gameActive
    /\ ~isPaused
    /\ frame < MaxFrames
    /\ pc = "idle" => pending > 0
    /\ pending' = IF pc = "idle" THEN pending - 1 ELSE pending
    /\ frame' = frame + 1
    /\ player' = PlayerUpdate(player, input.x)
    /\ hits' = {}
    /\ sounds' = <<>>
    /\ pc' = "spawn"
    /\ UNCHANGED <<sessionVars, entityVars, counterVars, pureVars, input,
                   presses>>

\* loop() step 5: if (Math.random() < 0.015 * wave) enemies.push(new Enemy())
SpawnEnemy ==
    /\ pc = "spawn"
    /\ \E r \in Randoms :
          IF r < SpawnProbability(wave) /\ Len(enemies) < MaxEnemies
          THEN \E x \in EnemyXs, j \in Jitters :
                  enemies' = Append(enemies, NewEnemy(x, j, wave))
          ELSE enemies' = enemies
    /\ pc' = "shoot"
    /\ UNCHANGED <<sessionVars, counterVars, pureVars, bullets, explosions,
                   particles, player, input, hits, sounds, frame, pending, presses>>

\* mutant of Shoot: the update step is left out after the shooting step
ShootSkipsUpdate ==
    /\ pc = "shoot"
    /\ IF input.tapped
       THEN /\ bullets' = Append(bullets, NewBullet(player.x, player.y))
            /\ sounds' = Append(sounds, "shoot")
            /\ input' = [input EXCEPT !.tapped = FALSE]
       ELSE UNCHANGED <<bullets, sounds, input>>
    /\ presses' = 0
    /\ pc' = "collide"
    /\ UNCHANGED <<sessionVars, counterVars, pureVars, enemies, explosions,
                   particles, player, hits, frame, pending>>

\* loop() step 6: one bullet per tap
Shoot ==
    /\ pc = "shoot"
    /\ IF input.tapped
       THEN /\ bullets' = Append(bullets, NewBullet(player.x, player.y))
            /\ sounds' = Append(sounds, "shoot")
            /\ input' = [input EXCEPT !.tapped = FALSE]
       ELSE UNCHANGED <<bullets, sounds, input>>
    /\ presses' = 0
    /\ pc' = "advance"
    /\ UNCHANGED <<sessionVars, counterVars, pureVars, enemies, explosions,
                   particles, player, hits, frame, pending>>

\* mutant of Advance: an enemy that leaves through the bottom ends the game
AdvanceGameOver ==
    /\ pc = "advance"
    /\ bullets' = [i \in DOMAIN bullets |-> BulletUpdate(bullets[i])]
    /\ enemies' = [i \in DOMAIN enemies |-> EnemyUpdate(enemies[i])]
    /\ explosions' = [i \in DOMAIN explosions |-> ExplosionUpdate(explosions[i])]
    /\ \E d \in [DOMAIN particles -> ParticleDrifts] :
          particles' = UpdateParticles(particles, d)
    /\ gameActive' = (gameActive /\ \A i \in DOMAIN enemies' : enemies'[i].y <= H)
    /\ pc' = "collide"
    /\ UNCHANGED <<audioCtx, overlay, audioSupport, error, isPaused, counterVars,
                   pureVars, player, input, hits, sounds, frame, pending, presses>>

\* loop() step 7: update all entities
Advance ==
    /\ pc = "advance"
    /\ bullets' = [i \in DOMAIN bullets |-> BulletUpdate(bullets[i])]
    /\ enemies' = [i \in DOMAIN enemies |-> EnemyUpdate(enemies[i])]
    /\ explosions' = [i \in DOMAIN explosions |-> ExplosionUpdate(explosions[i])]
    /\ \E d \in [DOMAIN particles -> ParticleDrifts] :
          particles' = UpdateParticles(particles, d)
    /\ pc' = "collide"
    /\ UNCHANGED <<sessionVars, counterVars, pureVars, player, input, hits,
                   sounds, frame, pending, presses>>

\* loop() step 8: collision detection
Collide ==
    /\ pc = "collide"
    /\ LET st == CollisionPass
       IN  /\ bullets' = st.bullets
           /\ enemies' = st.enemies
           /\ explosions' = st.explosions
           /\ score' = st.score
           /\ wave' = st.wave
           /\ hits' = st.hits
           /\ sounds' = st.sounds
    /\ pc' = "prune"
    /\ UNCHANGED <<sessionVars, pureVars, particles, player, input, frame,
                   pending, presses>>

\* loop() step 9: cleanup of inactive entities
Prune ==
    /\ pc = "prune"
    /\ bullets' = SelectActive(bullets)
    /\ enemies' = SelectActive(enemies)
    /\ explosions' = SelectAlive(explosions)
    /\ pc' = "render"
    /\ UNCHANGED <<sessionVars, counterVars, pureVars, particles, player,
                   input, hits, sounds, frame, pending, presses>>

\* loop() steps 10-11: render everything, requestAnimationFrame(loop)
Render ==
    /\ pc = "render"
    /\ pc' = "idle"
    /\ pending' = pending + 1
    /\ UNCHANGED <<sessionVars, entityVars, counterVars, pureVars, player,
                   input, hits, sounds, frame, presses>>

Next ==
    \/ \E x \in InputXs : HandleInputStart(x)
    \/ \E x \in InputXs : HandleInputMove(x)
    \/ HandleInputEnd
    \/ StartGame
    \/ FrameBegin
    \/ SpawnEnemy
    \/ Shoot
    \/ Advance
    \/ Collide
    \/ Prune
    \/ Render

Spec == Init /\ [][Next]_vars

----------------------------------------------------------------------------
(* Sessions with explosions in mid-decay *)

\* An explosion k frames after the hit that created it, as it stands
\* between two frames: created with 8 sub-particles of life 1.0 where an
\* enemy of age 22 was hit, updated k times since.
SessionExplosion(x, k) ==
    [x |-> x, y |-> SessionEnemy(x, 23).y,
     particles |-> [i \in 1..ExplosionParticles |-> ExplosionLife - k]]

\* ages (in frames) of the explosions of the mid-session states
DecayAges == {0, ExplosionLife - 2, ExplosionLife - 1}

\* explosions are appended at the hit: the older explosion comes first
SessionExplosions ==
    {<<>>}
    \cup {<<SessionExplosion(x, k)>> : x \in EnemyXs, k \in DecayAges}
    \cup {<<SessionExplosion(0, q[1]), SessionExplosion(100, q[2])>> :
             q \in {r \in DecayAges \X DecayAges : r[1] > r[2]}}

\* A state between two frames of a running session in which the explosions
\* of the last kills (of the 9 so far) are still on screen and at most one
\* enemy, spawned 22 frames ago, is on its way down.
InitDecay ==
    /\ MidSession
    /\ enemies \in {<<>>} \cup {<<SessionEnemy(x, 22)>> : x \in EnemyXs}
    /\ explosions \in SessionExplosions
    /\ wave = 1
    /\ InitRest
    /\ InitExt
    /\ InitTelemetry

\* the steps of a session that is running: event handlers and frame steps
NextPlay ==
    \/ \E x \in InputXs : HandleInputStart(x)
    \/ \E x \in InputXs : HandleInputMove(x)
    \/ HandleInputEnd
    \/ FrameBegin
    \/ SpawnEnemy
    \/ Shoot
    \/ Advance
    \/ Collide
    \/ Prune
    \/ Render

SpecDecay == InitDecay /\ [][NextPlay]_vars

----------------------------------------------------------------------------
(* Pause function *)

\* keydown listener: 'p' or 'P' toggles isPaused
TogglePause ==
    /\ BetweenFrames
    /\ isPaused' = ~isPaused
    /\ UNCHANGED <<gameActive, audioCtx, overlay, audioSupport, error,
                   entityVars, counterVars, pureVars, pc, player, input, hits,
                   sounds, frame, pending, presses>>

\* mutant of PausedFrame: the pause branch returns without requesting the
\* next frame
PausedFrameNoRequest ==
    /\ pc \in {"begin", "idle"}
    /\ gameActive
    /\ isPaused
    /\ frame < MaxFrames
    /\ pc = "idle" => pending > 0
    /\ pending' = IF pc = "idle" THEN pending - 1 ELSE pending
    /\ frame' = frame + 1
    /\ pc' = "idle"
    /\ UNCHANGED <<sessionVars, entityVars, counterVars, pureVars, player,
                   input, hits, sounds, presses>>

\* loop() with isPaused: draw 'PAUSED', requestAnimationFrame(loop), return
PausedFrame ==
    /\ pc \in {"begin", "idle"}
    /\ gameActive
    /\ isPaused
    /\ frame < MaxFrames
    /\ pc = "idle" => pending > 0
    /\ pending' = (IF pc = "idle" THEN pending - 1 ELSE pending) + 1
    /\ frame' = frame + 1
    /\ pc' = "idle"
    /\ UNCHANGED <<sessionVars, entityVars, counterVars, pureVars, player,
                   input, hits, sounds, presses>>

InitLoop == Init /\ Boot

NextLoop ==
    \/ Next
    \/ TogglePause
    \/ PausedFrame

SpecLoop == InitLoop /\ [][NextLoop]_vars

----------------------------------------------------------------------------
(* High score *)

RECURSIVE NumberToString(_)
\* n.toString() of a non-negative integer: its decimal digits as code units
NumberToString(n) ==
    IF n < 10 THEN <<48 + n>>
    ELSE NumberToString(n \div 10) \o <<48 + (n % 10)>>

RECURSIVE ParseDigits(_, _)
\* parseInt: the digits are taken up to the first code unit that is none
ParseDigits(s, acc) ==
    IF s = <<>> \/ Head(s) \notin 48..57 THEN acc
    ELSE ParseDigits(Tail(s), 10 * acc + (Head(s) - 48))

\* parseInt(s) of a string that begins with a digit
ParseInt(s) == ParseDigits(s, 0)

\* parseInt(localStorage.getItem('crt_highscore') || '0')
LoadHighScore(sl) ==
    ParseInt(IF sl.present /\ sl.val # <<>> THEN sl.val ELSE <<48>>)

\* mutant of UpdateHighScore: the score is stored in every frame
UpdateHighScoreAlways(sc, hs, sl) ==
    [highScore |-> sc, slot |-> Item(NumberToString(sc)), wrote |-> TRUE]

\* if (score > highScore) { highScore = score; setItem(highScore.toString()) }
UpdateHighScore(sc, hs, sl) ==
    IF sc > hs
    THEN [highScore |-> sc, slot |-> Item(NumberToString(sc)), wrote |-> TRUE]
    ELSE [highScore |-> hs, slot |-> sl, wrote |-> FALSE]

\* high scores an earlier session may have stored
StoredScores == {KillScore, 3 * KillScore}

\* the page has loaded in a browser in which earlier sessions were played
InitHighScore ==
    /\ Boot
    /\ audioSupport
    /\ explosions = <<>>
    /\ wave = 1
    /\ InitRest
    /\ InitTelemetry
    /\ storageDenied = FALSE
    /\ slot \in {NoItem} \cup {Item(NumberToString(n)) : n \in StoredScores}
    /\ highScore = LoadHighScore(slot)

\* page load: a new session starts with score 0 and reads the stored item
PageLoad ==
    /\ calls < MaxScoreCalls
    /\ calls' = calls + 1
    /\ score' = 0
    /\ highScore' = LoadHighScore(slot)
    /\ slot' = slot
    /\ res' = [op |-> "load", wrote |-> FALSE]
    /\ UNCHANGED <<gameActive, audioCtx, overlay, pc, player, input, bullets,
                   enemies, explosions, particles, wave, hits, sounds, frame,
                   audioSupport, error, presses, pending, isPaused, arg,
                   nodes, telemetryVars, storageDenied>>

\* a frame in which n enemies are destroyed, then the high-score update
ScoreFrame(n) ==
    /\ calls < MaxScoreCalls
    /\ calls' = calls + 1
    /\ score' = score + n * KillScore
    /\ \E u \in {UpdateHighScore(score + n * KillScore, highScore, slot)} :
          /\ highScore' = u.highScore
          /\ slot' = u.slot
          /\ res' = [op |-> "frame", wrote |-> u.wrote]
    /\ UNCHANGED <<gameActive, audioCtx, overlay, pc, player, input, bullets,
                   enemies, explosions, particles, wave, hits, sounds, frame,
                   audioSupport, error, presses, pending, isPaused, arg,
                   nodes, telemetryVars, storageDenied>>

NextHighScore ==
    \/ PageLoad
    \/ \E n \in 0..MaxBullets : ScoreFrame(n)

SpecHighScore == InitHighScore /\ [][NextHighScore]_vars

----------------------------------------------------------------------------
(* Sessions in the late waves *)

\* wave numbers of the late-session states
LateWaves == {MaxLateWave - 30, MaxLateWave - 10, MaxLateWave}

\* A state between two frames of a session that has reached a late wave:
\* the wave rises by one for every 1000 points (10 kills), so wave w is
\* current from w * 1000 - 900 points on; the field is empty.
InitLate ==
    /\ Running
    /\ enemies = <<>>
    /\ explosions = <<>>
    /\ wave \in LateWaves
    /\ score = wave * WaveThreshold - 9 * KillScore
    /\ InitRest
    /\ InitExt
    /\ InitTelemetry

SpecLate == InitLate /\ [][NextPlay]_vars

----------------------------------------------------------------------------
(* Difficulty as a pure function of the wave number *)

\* highest wave number evaluated
MaxWave == 12
\* Math.random() * 2 lies in [0, 2): 0 .. 9 units
JitterRange == 0..(2 * Unit - 1)

InitDifficulty == Init /\ Boot

\* the speed of a new enemy and the spawn probability at wave w and at w + 1
EvalDifficulty ==
    /\ \E w \in 1..MaxWave, j \in JitterRange :
          /\ arg' = [wave |-> w, jitter |-> j]
          /\ res' = [speed     |-> NewEnemy(0, j, w).speed,
                     speedNext |-> NewEnemy(0, j, w + 1).speed,
                     prob      |-> SpawnProbability(w),
                     probNext  |-> SpawnProbability(w + 1)]
    /\ UNCHANGED <<gameVars, libVars>>

SpecDifficulty == InitDifficulty /\ [][EvalDifficulty]_vars

----------------------------------------------------------------------------
(* The AudioEngine as an interface: init() and the three generators called *)
(* in any order, as from the console test of the feature guide             *)

InitAudio == Init /\ Boot

\* the game's variables an AudioEngine call leaves alone
silentVars == <<gameActive, overlay, pc, player, input, entityVars,
                counterVars, hits, frame, audioSupport, presses, arg, res,
                telemetryVars, extVars, pending, isPaused>>

\* AudioEngine.init()
AudioInit ==
    /\ calls < MaxAudioCalls
    /\ calls' = calls + 1
    /\ LET a == AudioEngineInit(audioSupport)
       IN  /\ audioCtx' = IF a.error = "none" THEN a.ctx ELSE audioCtx
           /\ error' = a.error
    /\ UNCHANGED <<silentVars, nodes, sounds>>

\* the call c of generator play, named name
CallGenerator(name, r) ==
    /\ calls < MaxAudioCalls
    /\ calls' = calls + 1
    /\ nodes' = r.nodes
    /\ error' = r.error
    /\ sounds' = Append(sounds, name)
    /\ UNCHANGED <<silentVars, audioCtx>>

CallPlayShoot == CallGenerator("shoot", PlayShoot(audioCtx, nodes, calls + 1))

CallPlayExplosion ==
    CallGenerator("explosion", PlayExplosion(audioCtx, nodes, calls + 1))

CallPlayAmbience ==
    CallGenerator("ambience", PlayAmbience(audioCtx, nodes, calls + 1))

\* the frame ends: the next calls belong to another frame
NextFrame ==
    /\ sounds # <<>>
    /\ sounds' = <<>>
    /\ UNCHANGED <<silentVars, audioCtx, error, nodes, calls>>

NextAudio ==
    \/ AudioInit
    \/ CallPlayShoot
    \/ CallPlayExplosion
    \/ CallPlayAmbience
    \/ NextFrame

SpecAudio == InitAudio /\ [][NextAudio]_vars

----------------------------------------------------------------------------
(* Log encryption as a pure function of the log array *)

\* messages: empty, 'a', '"e-acute', '\ab', and a right arrow (U+2192)
Messages == {<<>>, <<97>>, <<34, 233>>, <<92, 97, 98>>, <<8594>>}

LogArrays ==
    UNION {[1..n -> [type : {TypeEvent, TypeError}, message : Messages]] :
              n \in 0..MaxEntries}

InitCrypt == Init /\ Boot

\* encryptData(d), then decryptData of the game and of the log analyzer;
\* one array is encrypted per behaviour
EvalCrypt ==
    /\ arg = <<>>
    /\ \E d \in LogArrays :
          LET stored == EncryptData(d)
          IN  /\ arg' = [logs |-> d]
              /\ res' = [stored   |-> stored,
                         back     |-> DecryptData(stored.val),
                         analyzer |-> AnalyzerDecryptData(stored.val)]
    /\ UNCHANGED <<gameVars, libVars>>

SpecCrypt == InitCrypt /\ [][EvalCrypt]_vars

----------------------------------------------------------------------------
(* Log storage: calls of the logging interface *)

\* the logs of earlier sessions: n game events named 'a', 'b', ... in turn
EarlierLogs(n) == [k \in 1..n |-> LogEntry(TypeEvent, <<97 + (k % 26)>>)]

\* number of entries left in the item by earlier sessions
SessionLogs == {0, MAX_LOGS - 2}

InitLogs ==
    /\ InitGame
    /\ Boot
    /\ fpsHistory = <<>>
    /\ sinceLow = 0
    /\ frameTime = 0
    /\ switches = 0
    /\ \E n \in SessionLogs :
          /\ logged = EarlierLogs(n)
          /\ storage = IF n = 0 THEN NoItem
                       ELSE Item(EncryptData(EarlierLogs(n)).val)

fpsVars == <<fpsHistory, sinceLow, frameTime, switches>>

\* a call of logEvent(type, message) by the page
Log(type, message) ==
    /\ calls < MaxLogCalls
    /\ calls' = calls + 1
    /\ \E r \in {LogEvent(storage, type, message)} :
          /\ storage' = r.item
          /\ logged' = IF r.ok THEN Append(logged, LogEntry(type, message))
                       ELSE logged
    /\ UNCHANGED <<gameVars, nodes, arg, res, fpsVars, extVars>>

\* logEvent('error', message, data)
CallLogEvent == \E m \in {<<97>>, <<8594>>} : Log(TypeError, m)

\* logGameEvent(eventName): logEvent('event', eventName, eventData)
CallLogGameEvent == Log(TypeEvent, <<34, 233>>)

\* logPerformance(metricName, value): logEvent('performance', metricName, ..)
CallLogPerformance == Log(TypePerformance, <<92, 97, 98>>)

\* clearLogs()
CallClearLogs ==
    /\ calls < MaxLogCalls
    /\ calls' = calls + 1
    /\ storage' = NoItem
    /\ logged' = <<>>
    /\ UNCHANGED <<gameVars, nodes, arg, res, fpsVars, extVars>>

NextLogs ==
    \/ CallLogEvent
    \/ CallLogGameEvent
    \/ CallLogPerformance
    \/ CallClearLogs

SpecLogs == InitLogs /\ [][NextLogs]_vars

----------------------------------------------------------------------------
(* Log storage with a failing localStorage *)

(* storageDenied: every access to localStorage throws (storage blocked by   *)
(* the browser).  full: this call of setItem throws (quota exceeded).       *)

\* localStorage.setItem(...) after encryptData: either of them may throw
WriteItem(st, r, full) ==
    IF r.ok /\ ~full THEN [thrown |-> FALSE, item |-> r.item]
    ELSE [thrown |-> TRUE, item |-> st]

\* the try block of storeLogs: getItem throws when the storage is denied
StoreLogsBody(st, newLogs, denied, full) ==
    IF denied THEN [thrown |-> TRUE, item |-> st]
    ELSE WriteItem(st, StoreLogs(st, newLogs), full)

\* catch (e) { console.error(...) }
Caught(r) == [r EXCEPT !.thrown = FALSE]

\* mutant of StoreLogsSafe: storeLogs without its try / catch
StoreLogsUncaught(st, newLogs, denied, full) ==
    StoreLogsBody(st, newLogs, denied, full)

\* storeLogs(newLogs): try { ... } catch
StoreLogsSafe(st, newLogs, denied, full) ==
    Caught(StoreLogsBody(st, newLogs, denied, full))

\* getLogs(): try { stored ? decryptData(stored) || [] } catch; return []
GetLogsSafe(st, denied) ==
    Caught(IF denied THEN [thrown |-> TRUE, val |-> <<>>]
           ELSE [thrown |-> FALSE, val |-> GetLogs(st)])

\* clearLogs(): try { removeItem } catch
ClearLogsSafe(st, denied) ==
    Caught(IF denied THEN [thrown |-> TRUE, item |-> st]
           ELSE [thrown |-> FALSE, item |-> NoItem])

\* items that decryptData cannot read: a text that is no Base64 text, and
\* the Base64 text of an encrypted 'hi', which is no JSON text
CorruptItems == {<<19, 4, 60>>, Btoa(XorKey(<<104, 105>>)).val}

InitStore ==
    /\ Boot
    /\ audioSupport
    /\ explosions = <<>>
    /\ wave = 1
    /\ InitRest
    /\ highScore = 0
    /\ slot = NoItem
    /\ storageDenied \in BOOLEAN
    /\ fpsHistory = <<>>
    /\ sinceLow = 0
    /\ frameTime = 0
    /\ switches = 0
    /\ logged = <<>>
    /\ storage \in {NoItem, Item(EncryptData(EarlierLogs(1)).val)}
                      \cup {Item(c) : c \in CorruptItems}

\* what a call of the logging interface leaves alone, but for the error
storeFrame == <<gameActive, audioCtx, overlay, pc, player, input, bullets,
                enemies, explosions, particles, score, wave, hits, sounds,
                frame, audioSupport, presses, pending, isPaused, nodes,
                logged, fpsVars, highScore, slot, storageDenied>>

\* logEvent('error', message): storeLogs([logEntry]); return logEntry
SafeLogEvent(message, full) ==
    /\ calls < MaxStoreCalls
    /\ calls' = calls + 1
    /\ arg' = [logs |-> <<LogEntry(TypeError, message)>>, full |-> full,
               item |-> storage]
    /\ \E r \in {StoreLogsSafe(storage, <<LogEntry(TypeError, message)>>,
                               storageDenied, full)} :
          /\ storage' = r.item
          /\ error' = IF r.thrown THEN "storage" ELSE error
          /\ res' = [op |-> "logEvent",
                     val |-> IF r.thrown THEN <<>>
                             ELSE <<LogEntry(TypeError, message)>>]
    /\ UNCHANGED storeFrame

\* getLogs()
SafeGetLogs ==
    /\ calls < MaxStoreCalls
    /\ calls' = calls + 1
    /\ arg' = [logs |-> <<>>, full |-> FALSE, item |-> storage]
    /\ \E r \in {GetLogsSafe(storage, storageDenied)} :
          /\ error' = IF r.thrown THEN "storage" ELSE error
          /\ res' = [op |-> "getLogs", val |-> r.val]
    /\ UNCHANGED <<storeFrame, storage>>

\* clearLogs()
SafeClearLogs ==
    /\ calls < MaxStoreCalls
    /\ calls' = calls + 1
    /\ arg' = [logs |-> <<>>, full |-> FALSE, item |-> storage]
    /\ \E r \in {ClearLogsSafe(storage, storageDenied)} :
          /\ storage' = r.item
          /\ error' = IF r.thrown THEN "storage" ELSE error
          /\ res' = [op |-> "clearLogs", val |-> <<>>]
    /\ UNCHANGED storeFrame

NextStore ==
    \/ \E m \in {<<97>>, <<8594>>}, full \in BOOLEAN : SafeLogEvent(m, full)
    \/ SafeGetLogs
    \/ SafeClearLogs

SpecStore == InitStore /\ [][NextStore]_vars

----------------------------------------------------------------------------
(* Log analyzer: detected issues and their deduplication *)

(* An issue is reduced to its type, description and occurrences.  Objects   *)
(* are values with an identity: an entry of the Map is a record together    *)
(* with ref, the index of the input issue it is the same object as, or 0    *)
(* for an object of its own.                                                *)

\* 'Low FPS detected (avg: ' and ' FPS)'
LowFpsOpen ==
    <<76, 111, 119, 32, 70, 80, 83, 32, 100, 101, 116, 101, 99, 116, 101, 100,
      32, 40, 97, 118, 103, 58, 32>>
LowFpsClose == <<32, 70, 80, 83, 41>>

\* `Low FPS detected (avg: ${log.data.averageFPS} FPS)`
LowFpsDescription(avg) == LowFpsOpen \o NumberToString(avg) \o LowFpsClose

\* the issues that analyzeLogs pushes for one log
IssuesOfLog(log) ==
    (IF log.type = TypeError
     THEN <<[type |-> TypeError, description |-> log.message,
             occurrences |-> 1]>>
     ELSE <<>>)
    \o (IF log.type = TypePerformance /\ log.message = LowFpsMessage
        THEN <<[type |-> TypePerformance,
                description |-> LowFpsDescription(log.averageFPS),
                occurrences |-> 1]>>
        ELSE <<>>)

RECURSIVE DetectIssues(_)
\* logs.forEach(log => ...) of analyzeLogs: the issues array
DetectIssues(logs) ==
    IF logs = <<>> THEN <<>>
    ELSE IssuesOfLog(Head(logs)) \o DetectIssues(Tail(logs))

\* `${issue.type}-${issue.description}`
IssueKey(issue) == issue.type \o <<45>> \o issue.description

\* issueMap.has(key): the position of the key among the entries, 0 if none
KeyPosition(map, key) ==
    IF \E p \in DOMAIN map : map[p].key = key
    THEN CHOOSE p \in DOMAIN map : map[p].key = key
    ELSE 0

\* mutant of Spread: the issue itself is put into the Map
SameObject(issue, k) == [key |-> IssueKey(issue), rec |-> issue, ref |-> k]

\* issueMap.set(key, { ...issue }): a copy of the k-th issue
Spread(issue, k) == [key |-> IssueKey(issue), rec |-> issue, ref |-> 0]

\* existing.occurrences += 1 on the entry at position p
Increment(st, p) ==
    [map   |-> [st.map EXCEPT ![p].rec.occurrences = @ + 1],
     input |-> IF st.map[p].ref = 0 THEN st.input
               ELSE [st.input EXCEPT ![st.map[p].ref].occurrences = @ + 1]]

RECURSIVE DedupLoop(_, _)
\* issues.forEach(issue => ...) of deduplicateIssues from the k-th issue on
DedupLoop(st, k) ==
    IF k > Len(st.input) THEN st
    ELSE IF KeyPosition(st.map, IssueKey(st.input[k])) # 0
         THEN DedupLoop(Increment(st, KeyPosition(st.map, IssueKey(st.input[k]))),
                        k + 1)
         ELSE DedupLoop([st EXCEPT !.map = Append(@, Spread(st.input[k], k))],
                        k + 1)

\* deduplicateIssues(issues): Array.from(issueMap.values()), and the input
\* array as the call leaves it
DeduplicateIssues(issues) ==
    [issues |-> [p \in DOMAIN DedupLoop([map |-> <<>>, input |-> issues], 1).map
                   |-> DedupLoop([map |-> <<>>, input |-> issues], 1).map[p].rec],
     input  |-> DedupLoop([map |-> <<>>, input |-> issues], 1).input]

\* the logs given to the analyzer: errors with the messages 'a', '-a' and
\* the description of a low-FPS issue, low-FPS events with average 20 and
\* 25, and logs that are no issue
AnalyzedLogs ==
    {[type |-> TypeError, message |-> m, averageFPS |-> 0] :
        m \in {<<97>>, <<45, 97>>, LowFpsDescription(20)}}
    \cup {[type |-> TypePerformance, message |-> LowFpsMessage, averageFPS |-> a] :
             a \in {20, 25}}
    \cup {[type |-> t, message |-> <<97>>, averageFPS |-> 0] :
             t \in {TypeEvent, TypePerformance}}

InitDedup == Init /\ Boot /\ audioSupport

\* analyzeLogs(logs): one log array is analyzed per behaviour
EvalDedup ==
    /\ arg = <<>>
    /\ \E n \in 0..MaxAnalyzed : \E logs \in [1..n -> AnalyzedLogs] :
          \E d \in {DeduplicateIssues(DetectIssues(logs))} :
             /\ arg' = [logs |-> logs, issues |-> DetectIssues(logs)]
             /\ res' = d
    /\ UNCHANGED <<gameVars, libVars>>

SpecDedup == InitDedup /\ [][EvalDedup]_vars

----------------------------------------------------------------------------
(* FPS monitor: one call of monitorFPS per frame *)

\* frame times in ms: 100, 30 and 29 frames per second
Deltas == {10, 33, 34}

InitFPS == Init /\ Boot

\* monitorFPS() called delta ms after the previous call
MonitorFPS ==
    /\ calls < MaxFpsCalls
    /\ calls' = calls + 1
    /\ \E delta \in Deltas :
          /\ \/ delta = frameTime /\ switches' = switches
             \/ frameTime = 0 /\ switches' = switches
             \/ /\ frameTime \notin {0, delta}
                /\ switches < MaxSwitches
                /\ switches' = switches + 1
          /\ frameTime' = delta
          /\ \E m \in {MonitorFPSStep(fpsHistory, delta)} :
                /\ fpsHistory' = m.history
                /\ arg' = [delta |-> delta, fps |-> m.fps]
                /\ res' = m.avgFPS
                /\ sinceLow' = IF m.low THEN 0 ELSE sinceLow + 1
                /\ IF m.low
                   THEN \E r \in {LogEvent(storage, TypePerformance,
                                            LowFpsMessage)} :
                           /\ storage' = r.item
                           /\ logged' =
                                 IF r.ok
                                 THEN Append(logged,
                                             LogEntry(TypePerformance,
                                                      LowFpsMessage))
                                 ELSE logged
                   ELSE UNCHANGED <<storage, logged>>
    /\ UNCHANGED <<gameVars, nodes, extVars>>

SpecFPS == InitFPS /\ [][MonitorFPS]_vars

----------------------------------------------------------------------------
(* Properties *)

EnemySize == EnemySizePx * Unit

\* the point of bullet b lies strictly inside the box of enemy e
StrictlyInside(b, e) ==
    /\ 0 < b.x - e.x /\ b.x - e.x < EnemySize
    /\ 0 < b.y - e.y /\ b.y - e.y < EnemySize

\* the point of bullet b lies on the boundary of the box of enemy e
OnBoundary(b, e) ==
    /\ 0 <= b.x - e.x /\ b.x - e.x <= EnemySize
    /\ 0 <= b.y - e.y /\ b.y - e.y <= EnemySize
    /\ ~StrictlyInside(b, e)

ActivePairs ==
    {q \in (DOMAIN bullets) \X (DOMAIN enemies) :
        bullets[q[1]].active /\ enemies[q[2]].active}

\* C1: in the collision pass an active bullet and an active enemy register a
\* hit only if the bullet's point is strictly inside the enemy's box (a point
\* on the boundary is never a hit), and a strictly inside point is always a
\* hit: the pair is registered, unless one of the two was already consumed
\* by a hit with another partner earlier in the same pass.
C1_HitIffStrictlyInside ==
    [][pc = "collide" =>
        \A q \in ActivePairs :
            LET b == bullets[q[1]]
                e == enemies[q[2]]
            IN  /\ q \in hits' => StrictlyInside(b, e)
                /\ OnBoundary(b, e) => q \notin hits'
                /\ StrictlyInside(b, e) =>
                      \/ q \in hits'
                      \/ \E r \in hits' : r[1] = q[1] \/ r[2] = q[2]]_vars

\* C1 witness: a pass is over in which a bullet hit one enemy after it was
\* tested, both active, against an earlier enemy on whose box boundary it lay
C1_Witness ==
    /\ pc = "prune"
    /\ \E q \in hits : \E j \in DOMAIN enemies :
          /\ j < q[2]
          /\ enemies[j].active
          /\ OnBoundary(bullets[q[1]], enemies[j])

NewExplosions(n) == SubSeq(explosions', Len(explosions) + 1, Len(explosions) + n)

\* C2: for every hit of a collision pass the bullet and the enemy are inactive
\* after the pass, the score grows by exactly 100 per hit, exactly one
\* explosion per hit is appended, at the position of the enemy, with one
\* explosion sound; nothing else changes, and a pass without a hit changes
\* none of score, active flags or the explosion list.
C2_HitEffects ==
    [][pc = "collide" =>
        LET n == Cardinality(hits')
        IN  /\ score' = score + 100 * n
            /\ Len(explosions') = Len(explosions) + n
            /\ SubSeq(explosions', 1, Len(explosions)) = explosions
            /\ Len(sounds') = Len(sounds) + n
            /\ \A k \in 1..n : sounds'[Len(sounds) + k] = "explosion"
            /\ \A q \in hits' :
                  /\ ~bullets'[q[1]].active
                  /\ ~enemies'[q[2]].active
                  /\ \E k \in 1..n :
                        /\ NewExplosions(n)[k].x = enemies[q[2]].x
                        /\ NewExplosions(n)[k].y = enemies[q[2]].y
            /\ \A i \in DOMAIN bullets :
                  (\A q \in hits' : q[1] # i) => bullets'[i] = bullets[i]
            /\ \A j \in DOMAIN enemies :
                  (\A q \in hits' : q[2] # j) => enemies'[j] = enemies[j]
            /\ n = 0 => /\ score' = score
                        /\ bullets' = bullets
                        /\ enemies' = enemies
                        /\ explosions' = explosions]_vars

\* C2 witness: a pass with a hit is over, an explosion stands at the enemy
C2_Witness ==
    /\ pc = "prune"
    /\ \E q \in hits :
          /\ ~bullets[q[1]].active
          /\ ~enemies[q[2]].active
          /\ explosions # <<>>
          /\ explosions[Len(explosions)].x = enemies[q[2]].x
    /\ score = 1000

\* C3: the wave advances, by one, exactly at a check (made after a hit has
\* raised the score) at which score > wave * 1000; with score <= wave * 1000
\* it is unchanged, and no other step changes the wave.
C3_WaveAdvance ==
    [][/\ wave' # wave => /\ wave' = wave + 1
                          /\ pc = "collide"
                          /\ hits' # {}
                          /\ score' > wave * 1000
       /\ (pc = "collide" /\ hits' # {} /\ score' > wave * 1000)
             => wave' = wave + 1
       /\ score' <= wave * 1000 => wave' = wave]_vars

\* C3 witness: the wave has advanced
C3_Witness == wave = 2 /\ score = 1100 /\ pc = "prune"

\* C4 as stated: at the end of every frame wave = 1 + floor(score / 1000)
C4_Original == pc = "idle" => wave = 1 + (score \div 1000)

\* C4 amended: at the end of every frame the wave is 1 plus the number of
\* thresholds 1000, 2000, ... the score has strictly exceeded:
\* wave = 1 + floor((score - 1) / 1000) for score > 0, and 1 for score 0.
C4_WaveOfScore ==
    pc = "idle" =>
        wave = (IF score = 0 THEN 1 ELSE 1 + ((score - 1) \div 1000))

\* C4 witness: a frame ends with the score exactly on the threshold
C4_Witness == pc = "idle" /\ score = 1000 /\ wave = 1

\* C5: neither the score nor the wave ever decreases, whatever the step; an
\* enemy leaving through the bottom leaves the score as it is.
C5_Monotone ==
    [][/\ score' >= score
       /\ wave' >= wave
       /\ (pc = "advance" => score' = score)]_vars

\* C5 witness: an enemy has left through the bottom, unhit, after a kill
C5_Witness ==
    /\ pc = "collide"
    /\ score = 1000
    /\ \E j \in DOMAIN enemies : enemies[j].y > H /\ ~enemies[j].active

\* C6: for every wave w >= 1 and jitter, the speed of an enemy spawned at
\* wave w + 1 and the spawn probability at w + 1 are not lower than at w.
C6_DifficultyMonotone ==
    arg # <<>> => /\ res.speedNext >= res.speed
                  /\ res.probNext >= res.prob

\* C6 witness: the difficulty of the highest wave was evaluated
C6_Witness == arg # <<>> /\ arg.wave = MaxWave /\ res.speed > 2 * Unit

BulletSpeed == BulletSpeedPx * Unit

\* C7: the update step moves every active bullet up by exactly 10px and
\* leaves its x; a bullet is inactive after the update exactly if its y is
\* below 0, the collision pass deactivates a bullet only by a hit, and no
\* other step changes a bullet.
C7_BulletMotion ==
    [][/\ pc = "advance" =>
            \A i \in DOMAIN bullets :
                bullets[i].active =>
                    /\ bullets'[i].y = bullets[i].y - BulletSpeed
                    /\ bullets'[i].x = bullets[i].x
                    /\ bullets'[i].active <=> bullets'[i].y >= 0
       /\ pc = "collide" =>
            \A i \in DOMAIN bullets :
                (bullets[i].active /\ ~bullets'[i].active) =>
                    \E q \in hits' : q[1] = i
       /\ pc \notin {"advance", "collide", "prune"} =>
            \A i \in DOMAIN bullets : bullets'[i] = bullets[i]]_vars

\* C7 witness: a bullet reached y = 0 and is still active, another one has
\* gone above the top edge and is inactive
C7_Witness ==
    /\ pc = "collide"
    /\ \E i \in DOMAIN bullets : bullets[i].y < 0 /\ ~bullets[i].active
    /\ \E i \in DOMAIN bullets : bullets[i].y >= 0 /\ bullets[i].active

\* C8: the update step moves every active enemy down by exactly its speed,
\* which is the speed it got at spawn, and leaves its x; an enemy is inactive
\* after the update exactly if its y exceeds the canvas height (an enemy at
\* y = height stays active), the collision pass deactivates an enemy only by
\* a hit, and no other step changes an enemy. An enemy that is 30 frames old
\* with speed 2px stands at y = 10px.
C8_EnemyMotion ==
    [][/\ pc = "advance" =>
            \A j \in DOMAIN enemies :
                enemies[j].active =>
                    /\ enemies'[j].y = enemies[j].y + enemies[j].speed
                    /\ enemies'[j].x = enemies[j].x
                    /\ enemies'[j].speed = enemies[j].speed
                    /\ enemies'[j].active <=> enemies'[j].y <= H
       /\ pc = "collide" =>
            \A j \in DOMAIN enemies :
                (enemies[j].active /\ ~enemies'[j].active) =>
                    \E q \in hits' : q[2] = j
       /\ pc \notin {"advance", "collide", "prune"} =>
            \A j \in DOMAIN enemies : enemies'[j] = enemies[j]]_vars

\* C8 witness: an enemy stands exactly on the bottom edge and is active
\* while the enemy of the example is at y = 10px, 30 frames after its spawn
C8_Witness ==
    /\ pc = "collide"
    /\ \E j \in DOMAIN enemies : enemies[j].y = H /\ enemies[j].active
    /\ \E j \in DOMAIN enemies :
          /\ enemies[j].speed = 2 * Unit
          /\ enemies[j].y = EnemySpawnYPx * Unit + 30 * 2 * Unit
          /\ enemies[j].y = 10 * Unit
          /\ enemies[j].active

ActiveIdx(s) == {i \in DOMAIN s : s[i].active}

\* the n-th active element of s
NthActive(s, n) ==
    s[CHOOSE i \in ActiveIdx(s) : Cardinality({k \in ActiveIdx(s) : k <= i}) = n]

\* t is s without its inactive elements, in the same order
IsPruned(s, t) ==
    /\ Len(t) = Cardinality(ActiveIdx(s))
    /\ \A n \in DOMAIN t : t[n] = NthActive(s, n)

\* C9: once the prune step of a frame has run (and until the next frame's
\* update) the bullet and the enemy collection hold no inactive entity; the
\* update and collision steps remove nothing, so a deactivated entity stays
\* in its collection until the prune step, which removes exactly the
\* inactive entities.
C9_PruneOncePerFrame ==
    [][/\ pc' \in {"render", "idle"} =>
            /\ \A i \in DOMAIN bullets' : bullets'[i].active
            /\ \A j \in DOMAIN enemies' : enemies'[j].active
       /\ pc \in {"advance", "collide"} =>
            /\ Len(bullets') = Len(bullets)
            /\ Len(enemies') = Len(enemies)
       /\ pc = "prune" =>
            /\ IsPruned(bullets, bullets')
            /\ IsPruned(enemies, enemies')]_vars

\* C9 witness: before the prune step an inactive bullet and an inactive enemy
\* are still in their collections, next to an active enemy
C9_Witness ==
    /\ pc = "prune"
    /\ \E i \in DOMAIN bullets : ~bullets[i].active
    /\ \E j \in DOMAIN enemies : ~enemies[j].active
    /\ \E j \in DOMAIN enemies : enemies[j].active

\* numerator of min(width * height / 4000, 200) over the denominator 4000
AmbientCountNum ==
    IF CanvasWidth * CanvasHeight < 200 * 4000
    THEN CanvasWidth * CanvasHeight ELSE 200 * 4000

C11_PlayBeforeInit ==
    [][(~audioCtx /\ Len(sounds') > Len(sounds)) =>
          /\ error' = "none"
          /\ nodes' = nodes
          /\ <<gameActive, score, wave, entityVars>>'
                = <<gameActive, score, wave, entityVars>>]_vars

\* C12: while the game is not active the audio context does not exist, the
\* start overlay is shown and no frame has begun; the game becomes active
\* only by the start gesture, which is also the only step that creates the
\* audio context, and a frame begins only when the context exists.
C12_BootUntilStart ==
    [][/\ ~gameActive => (~audioCtx /\ overlay /\ pc = "boot" /\ frame = 0)
       /\ ~gameActive' => (~audioCtx' /\ overlay' /\ frame' = 0)
       /\ (~gameActive /\ gameActive') =>
              (pc = "boot" /\ pc' = "begin" /\ audioCtx' /\ ~overlay')
       /\ audioCtx' # audioCtx => (~gameActive /\ gameActive')
       /\ frame' # frame => (gameActive /\ audioCtx)]_vars

\* C12 witness: the first frame after the start gesture has begun
C12_Witness ==
    /\ pc = "spawn"
    /\ frame = 1
    /\ score = 0
    /\ gameActive /\ audioCtx /\ ~overlay

\* C13: the shooting step creates exactly as many bullets as press-down
\* events were received since the previous shooting step, each at the
\* player's position, and no other step creates a bullet; so the number of
\* bullets created equals the number of presses (a press made on the start
\* overlay is answered in the first frame and counted as well).
C13_OneBulletPerTap ==
    [][/\ pc = "shoot" =>
            /\ Len(bullets') = Len(bullets) + presses
            /\ \A i \in (DOMAIN bullets') \ (DOMAIN bullets) :
                  bullets'[i].x = player.x /\ bullets'[i].y = player.y
       /\ pc # "shoot" => Len(bullets') <= Len(bullets)]_vars

\* an enemy that left through the bottom of the screen in the update step
LeftBottom(e) == e.y > H /\ ~e.active

\* C14: once active the game is active in every later state, and the update
\* step in which an enemy leaves through the bottom only moves the enemies
\* and clears that enemy's active flag: the frame goes on with the collision
\* step, the game stays active, score and wave are unchanged, the frame ends
\* with the next frame scheduled.
C14_NoGameOver ==
    [][/\ gameActive => gameActive'
       /\ pc = "advance" =>
            /\ score' = score /\ wave' = wave
            /\ pc' = "collide"
            /\ gameActive' /\ error' = error
            /\ Len(enemies') = Len(enemies)
            /\ \A j \in DOMAIN enemies :
                  /\ enemies'[j].x = enemies[j].x
                  /\ enemies'[j].speed = enemies[j].speed
                  /\ enemies[j].active =>
                        (enemies'[j].active <=> ~LeftBottom(enemies'[j]))
       /\ pc = "render" => (pc' = "idle" /\ gameActive')]_vars

\* C14 witness: an enemy has left through the bottom while another one is
\* still on its way, and the frame goes on
C14_Witness ==
    /\ pc = "prune"
    /\ gameActive
    /\ wave = 1
    /\ \E j \in DOMAIN enemies : LeftBottom(enemies[j])
    /\ \E j \in DOMAIN enemies : enemies[j].active

\* the step that follows step p of a frame
StepAfter(p) ==
    CASE p \in {"begin", "idle"} -> "spawn"
      [] p = "spawn"   -> "shoot"
      [] p = "shoot"   -> "advance"
      [] p = "advance" -> "collide"
      [] p = "collide" -> "prune"
      [] p = "prune"   -> "render"
      [] p = "render"  -> "idle"

\* C15: whatever capability is missing, no step raises an error, the start
\* gesture makes the game active, every frame runs through all its steps,
\* and the WebGL probe reports an absent WebGL without failing.
C15_SilentDegradation ==
    [][/\ error' = "none"
       /\ (pc = "boot" /\ <<pc, error>>' # <<pc, error>>) => gameActive'
       /\ (pc # "boot" /\ pc' # pc) => pc' = StepAfter(pc)
       /\ \A gl \in BOOLEAN, ext \in BOOLEAN :
             GetWebGLInfo(gl, ext).supported = gl]_vars

\* the nodes a step creates
NewNodes == (DOMAIN nodes') \ (DOMAIN nodes)

\* C16: a call of a generator leaves every node of the earlier calls as it
\* is (it neither starts, stops nor reconnects it), the nodes it creates
\* belong to this call and are connected among themselves or to the
\* destination only, a call of the explosion generator creates one noise
\* buffer, one source, one filter and one gain, and no node is ever started
\* or stopped twice; so two calls in the same frame share nothing but the
\* audio context.
C16_IndependentGraphs ==
    [][/\ \A i \in DOMAIN nodes : i \in DOMAIN nodes' /\ nodes'[i] = nodes[i]
       /\ \A i \in DOMAIN nodes' :
             nodes'[i].starts <= 1 /\ nodes'[i].stops <= 1
       /\ \A i \in NewNodes :
             /\ nodes'[i].call = calls'
             /\ nodes'[i].out \in NewNodes \cup {0, -1}
             /\ nodes'[i].buffer \in NewNodes \cup {0}
       /\ (audioCtx /\ Len(sounds') > Len(sounds)
              /\ sounds'[Len(sounds')] = "explosion") =>
             /\ Cardinality(NewNodes) = 4
             /\ {nodes'[i].kind : i \in NewNodes}
                   = {"buffer", "source", "filter", "gain"}]_vars

\* C16 witness: the explosion generator was called twice in one frame and
\* two noise sources are playing
C16_Witness ==
    /\ Len(sounds) >= 2
    /\ sounds[Len(sounds)] = "explosion"
    /\ sounds[Len(sounds) - 1] = "explosion"
    /\ \E i \in DOMAIN nodes, k \in DOMAIN nodes :
          /\ i < k
          /\ nodes[i].kind = "source" /\ nodes[k].kind = "source"
          /\ nodes[i].starts = 1 /\ nodes[k].starts = 1
          /\ nodes[i].buffer # nodes[k].buffer

\* the last n elements of s, all of s if it is shorter
LastN(s, n) == IF Len(s) > n THEN SubSeq(s, Len(s) - n + 1, Len(s)) ELSE s

\* C17: whatever calls of logEvent, logGameEvent and logPerformance were
\* made, the stored log array (as getLogs reads it) holds at most 100
\* entries, and they are the last 100 of the entries whose call stored
\* successfully, in the order of the calls: all of them while there are at
\* most 100, without the oldest ones beyond.
C17_LogCap ==
    LET stored == GetLogs(storage)
    IN  /\ Len(stored) <= 100
        /\ stored = LastN(logged, 100)

\* C17 witness: 101 entries were stored and the oldest one is gone, after a
\* call that failed to store
C17_Witness ==
    /\ Len(logged) = 101
    /\ calls >= 3
    /\ LET stored == GetLogs(storage)
       IN  /\ Len(stored) = 100
           /\ stored[1] = logged[2]
           /\ stored[100] = logged[101]

\* C18: for every log array d, encryptData(d) succeeds, the stored text is
\* the Base64 form of the JSON text XORed with the repeating key, and
\* decryptData (of the game and of the log analyzer) gives d back.
C18_RoundTrip ==
    arg # <<>> =>
        /\ res.stored.ok
        /\ Atob(res.stored.val).ok
        /\ XorKey(Atob(res.stored.val).val) = Stringify(arg.logs)
        /\ res.back = [ok |-> TRUE, val |-> arg.logs]
        /\ res.analyzer = [ok |-> TRUE, val |-> arg.logs]

\* C20: a monitorFPS call logs 'Low FPS detected' exactly if the history
\* with the new sample (its last 60 samples) holds at least 30 samples whose
\* rounded average is below 30; the history never holds more than 60
\* samples, it is empty after a call that logged the event and the sampled
\* history otherwise, and an event is logged by the 30th call after the
\* previous event (or after the start) at the earliest.
C20_LowFps ==
    [][calls' # calls =>
          LET h   == LastN(Append(fpsHistory, arg'.fps), 60)
              low == Len(logged') > Len(logged)
          IN  /\ low <=> /\ Len(h) >= 30
                         /\ (2 * Sum(h) + Len(h)) \div (2 * Len(h)) < 30
              /\ Len(fpsHistory') <= 60
              /\ low => /\ fpsHistory' = <<>>
                        /\ logged'[Len(logged')].message = LowFpsMessage
                        /\ GetLogs(storage') = logged'
                        /\ sinceLow >= 29
              /\ ~low => fpsHistory' = h /\ storage' = storage]_vars

\* C20 witness: a second low-FPS event has been logged, 30 calls after the
\* first one
C20_Witness ==
    /\ Len(logged) = 2
    /\ calls = 60
    /\ sinceLow = 0
    /\ fpsHistory = <<>>

\* C19: the steps of a frame follow each other in one order: player update,
\* enemy spawn, shooting, update of all entities, collision detection,
\* cleanup, rendering, next frame.  Only the first step moves the player,
\* enemies are created in the spawn step and bullets in the shooting step
\* only, positions change in the update step only, hits are registered in
\* the collision step only, entities are removed in the cleanup step only;
\* when the collision step runs every enemy and every bullet, also one
\* created in this frame, has been moved at least once.
C19_FrameOrder ==
    [][/\ (pc # "boot" /\ pc' # pc) => pc' = StepAfter(pc)
       /\ player' # player => (pc \in {"begin", "idle"} /\ pc' = "spawn")
       /\ Len(enemies') > Len(enemies) => pc = "spawn"
       /\ Len(bullets') > Len(bullets) => pc = "shoot"
       /\ pc \notin {"advance", "prune"} =>
             /\ \A i \in (DOMAIN bullets) \cap (DOMAIN bullets') :
                   bullets'[i].y = bullets[i].y
             /\ \A j \in (DOMAIN enemies) \cap (DOMAIN enemies') :
                   enemies'[j].y = enemies[j].y
       /\ (hits' # {} /\ hits' # hits) => pc = "collide"
       /\ (Len(enemies') < Len(enemies) \/ Len(bullets') < Len(bullets))
             => pc = "prune"
       /\ pc = "collide" =>
             /\ \A i \in DOMAIN bullets :
                   bullets[i].y <= player.y - BulletSpeed
             /\ \A j \in DOMAIN enemies :
                   enemies[j].y >= EnemySpawnYPx * Unit + enemies[j].speed]_vars

\* C19 witness: the collision step is about to run in a frame that created
\* an enemy and a bullet, both already moved once
C19_Witness ==
    /\ pc = "collide"
    /\ \E i \in DOMAIN bullets : bullets[i].y = player.y - BulletSpeed
    /\ \E j \in DOMAIN enemies :
          enemies[j].y = EnemySpawnYPx * Unit + enemies[j].speed

\* the elements of s that have a sub-particle with life left
LiveIdx(s) ==
    {i \in DOMAIN s : \E k \in DOMAIN s[i].particles : s[i].particles[k] > 0}

\* the n-th smallest index of the index set S
NthOf(S, n) == CHOOSE i \in S : Cardinality({j \in S : j <= i}) = n

\* C21: every explosion is created (by a hit, in the collision step) with 8
\* sub-particles of life 1.0 (20 twentieths); the update step of each frame
\* takes 0.05 from every sub-particle of every explosion and removes none;
\* the cleanup step removes exactly the explosions none of whose
\* sub-particles has life left and keeps the others in order; no other step
\* touches the list.  So between two frames every explosion has lives
\* between 0.05 and 1.0, older explosions come first, and an explosion is
\* removed in the 20th frame after its creation.
C21_ExplosionLife ==
    [][/\ pc = "collide" =>
            /\ Len(explosions') = Len(explosions) + Cardinality(hits')
            /\ SubSeq(explosions', 1, Len(explosions)) = explosions
            /\ \A i \in (DOMAIN explosions') \ (DOMAIN explosions) :
                  /\ DOMAIN explosions'[i].particles = 1..8
                  /\ \A k \in 1..8 : explosions'[i].particles[k] = 20
       /\ pc = "advance" =>
            /\ Len(explosions') = Len(explosions)
            /\ \A i \in DOMAIN explosions :
                  /\ DOMAIN explosions'[i].particles = 1..8
                  /\ \A k \in 1..8 :
                        explosions'[i].particles[k]
                           = explosions[i].particles[k] - 1
       /\ pc = "prune" =>
            /\ Len(explosions') = Cardinality(LiveIdx(explosions))
            /\ \A n \in DOMAIN explosions' :
                  explosions'[n] = explosions[NthOf(LiveIdx(explosions), n)]
            /\ \A i \in DOMAIN explosions' : \A k \in 1..8 :
                  explosions'[i].particles[k] \in 1..20
            /\ \A i \in DOMAIN explosions' : \A j \in DOMAIN explosions' :
                  i < j => explosions'[i].particles[1]
                              <= explosions'[j].particles[1]
       /\ pc \notin {"collide", "advance", "prune"} =>
            explosions' = explosions]_vars

\* C21 witness: the cleanup step is about to run on an explosion whose
\* sub-particles reached life 0 in this frame, 20 updates after its
\* creation, next to an explosion created by a hit of this frame
C21_Witness ==
    /\ pc = "prune"
    /\ hits # {}
    /\ \E i \in DOMAIN explosions, j \in DOMAIN explosions :
          /\ i < j
          /\ \A k \in 1..8 : explosions[i].particles[k] = 0
          /\ \A k \in 1..8 : explosions[j].particles[k] = 20

\* C22: the one player keeps its y-coordinate in every step; only the first
\* step of a frame moves it, by 15% of the distance to the pointer's x (to
\* the fifth of a pixel) and never beyond the pointer's x, and then brings
\* it back to the range from 20px to width - 20px; so after every frame x
\* lies in that range, wherever the pointer is.
C22_PlayerMotion ==
    [][/\ player'.y = player.y
       /\ player'.x \in (20 * Unit)..(W - 20 * Unit)
       /\ player' # player => (pc \in {"begin", "idle"} /\ pc' = "spawn")
       /\ (pc \in {"begin", "idle"} /\ pc' = "spawn") =>
             \E d \in (-W)..W :
                /\ 20 * d - 3 * (input.x - player.x) \in (-19)..19
                /\ input.x >= player.x => d \in 0..(input.x - player.x)
                /\ input.x <= player.x => d \in (input.x - player.x)..0
                /\ player'.x =
                      IF player.x + d < 20 * Unit THEN 20 * Unit
                      ELSE IF player.x + d > W - 20 * Unit THEN W - 20 * Unit
                      ELSE player.x + d]_vars

\* C22 witness: in the second frame after the start, with the pointer at the
\* left edge of the canvas, the player has moved left from the middle and
\* has been stopped 20px from the edge
C22_Witness ==
    /\ frame = 2
    /\ pc = "spawn"
    /\ score = 0
    /\ input.x = 0
    /\ player.targetX = 0
    /\ player.x = 20 * Unit

\* C23: the enemy list grows in the spawn step only, while the game is
\* active, and by one enemy at most per frame; the new enemy is active, at
\* y = -50px, and its speed is 1 + 0.2 * wave (in px) plus the random part
\* drawn for it, for the wave of that frame; no step changes the speed of an
\* enemy, whatever happens to the wave number; while the game is not
\* active (the boot state) there is neither an enemy nor a bullet.
C23_Spawn ==
    [][/\ Len(enemies') > Len(enemies) =>
            /\ pc = "spawn" /\ gameActive
            /\ enemies' = Append(enemies, enemies'[Len(enemies')])
            /\ LET e == enemies'[Len(enemies')]
               IN  /\ e.active
                   /\ e.y = -50 * Unit
                   /\ e.speed - Unit - wave \in Jitters
       /\ pc = "prune" => IsPruned(enemies, enemies')
       /\ pc # "prune" =>
            \A j \in DOMAIN enemies : enemies'[j].speed = enemies[j].speed
       /\ ~gameActive => enemies = <<>> /\ bullets = <<>>
       /\ ~gameActive' => enemies' = <<>> /\ bullets' = <<>>]_vars

\* C23 witness: an enemy has just been spawned in wave 2 with the speed of
\* wave 2, behind an enemy spawned in wave 1 that still has the speed of
\* wave 1
C23_Witness ==
    /\ pc = "shoot"
    /\ wave = 2
    /\ Len(enemies) = 2
    /\ enemies[1].active /\ enemies[1].y > -50 * Unit
    /\ enemies[1].speed - Unit - 1 \in Jitters
    /\ enemies[2].active /\ enemies[2].y = -50 * Unit
    /\ enemies[2].speed = enemies[1].speed + 1

\* frames since the spawn of enemy e exceed those of enemy f
Older(e, f) ==
    (e.y - EnemySpawnYPx * Unit) * f.speed > (f.y - EnemySpawnYPx * Unit) * e.speed

BulletsOff == {i \in DOMAIN bullets : bullets[i].active /\ ~bullets'[i].active}
EnemiesOff == {j \in DOMAIN enemies : enemies[j].active /\ ~enemies'[j].active}

\* C26: in one collision pass no bullet is in two hits and no enemy is in
\* two hits; the bullets and the enemies the pass deactivates are those of
\* its hits, as many bullets as enemies, one explosion is created for each
\* and the score grows by 100 for each, also when a second bullet lies in
\* the box of the enemy hit or the bullet lies in the box of a second enemy.
C26_OneHitEach ==
    [][pc = "collide" =>
          /\ \A q \in hits' : \A r \in hits' :
                (q[1] = r[1] \/ q[2] = r[2]) => q = r
          /\ BulletsOff = {q[1] : q \in hits'}
          /\ EnemiesOff = {q[2] : q \in hits'}
          /\ Cardinality(BulletsOff) = Cardinality(EnemiesOff)
          /\ Len(explosions') - Len(explosions) = Cardinality(EnemiesOff)
          /\ score' - score = 100 * Cardinality(EnemiesOff)]_vars

\* C26 witness: a pass is over in which one bullet hit an enemy while a
\* second bullet, still active, lies strictly inside the box of that enemy
C26_Witness ==
    /\ pc = "prune"
    /\ Cardinality(hits) = 1
    /\ \E q \in hits : \E i \in DOMAIN bullets :
          /\ i # q[1]
          /\ bullets[i].active
          /\ ~enemies[q[2]].active
          /\ StrictlyInside(bullets[i], enemies[q[2]])

\* C27: no update step takes an active bullet from below an enemy's box
\* (or from its bottom edge) to its top edge or above it while both stay
\* active and the bullet's x is strictly inside the enemy's x-range: every
\* such bullet is seen strictly inside the box by a collision check (and
\* hit), at every wave number and enemy speed.
C27_NoTunnelling ==
    [][pc = "advance" =>
          \A i \in DOMAIN bullets : \A j \in DOMAIN enemies :
              (/\ bullets[i].active /\ enemies[j].active
               /\ bullets'[i].active /\ enemies'[j].active
               /\ 0 < bullets[i].x - enemies[j].x
               /\ bullets[i].x - enemies[j].x < 30 * Unit
               /\ bullets[i].y >= enemies[j].y + 30 * Unit)
              => bullets'[i].y > enemies'[j].y]_vars

\* C28: a frame callback is pending exactly while the game is active and
\* no frame is running: none before the start gesture, which runs the
\* first frame itself, none during a frame, one after every run of the
\* callback, through the pause branch as well as through the game logic;
\* a run of the callback takes the pending callback, so no two runs
\* overlap or share a refresh; the loop is entered from the boot state
\* only and never left; pointer and key events take effect between frames
\* only.
C28_OnePendingFrame ==
    [][/\ pending' \in {0, 1}
       /\ pc' = "boot" => pending' = 0 /\ ~gameActive'
       /\ pc' = "idle" => pending' = 1 /\ gameActive'
       /\ pc' \notin {"boot", "idle"} => pending' = 0 /\ gameActive'
       /\ frame' # frame =>
            /\ frame' = frame + 1
            /\ pc \in {"begin", "idle"}
            /\ pc = "idle" => pending = 1
            /\ pc' \in {"spawn", "idle"}
            /\ pc' = "idle" <=> isPaused
       /\ (pc' = "begin" /\ pc # "begin") => pc = "boot"
       /\ pc # "boot" => pc' # "boot"
       /\ (\/ input'.x # input.x
           \/ input'.isDown # input.isDown
           \/ input'.tapped /\ ~input.tapped
           \/ isPaused' # isPaused) =>
             /\ pc \in {"boot", "idle"}
             /\ pc' = pc /\ pending' = pending]_vars

\* C28 witness: the start gesture was made while paused and the callback ran
\* twice through the pause branch (the player has not moved); one callback
\* is pending
C28_Witness ==
    /\ gameActive
    /\ isPaused
    /\ pc = "idle"
    /\ frame = 2
    /\ player.x = W \div 2
    /\ pending = 1

\* the number the stored item stands for; without an item, 0
StoredScore(sl) == IF sl.present THEN ParseInt(sl.val) ELSE 0

\* C25: the stored item is read at page load only, which sets highScore to
\* the number stored (0 without an item) and writes nothing.  An update
\* writes exactly if the score exceeds highScore; after it highScore is at
\* least the score and is the number the stored item stands for, written
\* in decimal digits (with highScore 0 nothing need be stored); the stored
\* number never decreases, and an update with score <= highScore changes
\* neither the item nor highScore.
C25_HighScore ==
    [][calls' # calls =>
          IF res'.op = "load"
          THEN /\ slot' = slot
               /\ highScore' = StoredScore(slot)
               /\ ~res'.wrote
          ELSE /\ highScore' >= score'
               /\ StoredScore(slot') = highScore'
               /\ slot'.present => slot'.val = NumberToString(highScore')
               /\ StoredScore(slot') >= StoredScore(slot)
               /\ res'.wrote <=> score' > highScore
               /\ res'.wrote => slot' = Item(NumberToString(score'))
               /\ ~res'.wrote => slot' = slot /\ highScore' = highScore]_vars

\* C25 witness: after a number of page loads and frames an update has just
\* written the score 200 as the new high score
C25_Witness ==
    /\ calls = MaxScoreCalls
    /\ res # <<>> /\ res.op = "frame" /\ res.wrote
    /\ score = 2 * KillScore
    /\ highScore = 2 * KillScore
    /\ slot = Item(<<50, 48, 48>>)

\* an item is stored and decryptData returns null for it
Undecryptable(st) == st.present /\ st.val # <<>> /\ ~DecryptData(st.val).ok

\* encryptData throws for the array that storeLogs builds
EncryptFails(st, newLogs) == ~EncryptData(Latest(GetLogs(st) \o newLogs)).ok

\* C29 as stated: no call propagates an error; logEvent returns its entry;
\* storeLogs leaves the item unchanged when the storage cannot be read, the
\* item cannot be decrypted, the array cannot be encrypted or the item
\* cannot be written; getLogs returns [] without an item, with an item that
\* cannot be decrypted, and after clearLogs.
C29_Original ==
    [][calls' # calls =>
          /\ error' = "none"
          /\ res'.op = "logEvent" =>
                /\ res'.val = arg'.logs
                /\ (\/ storageDenied
                    \/ Undecryptable(storage)
                    \/ EncryptFails(storage, arg'.logs)
                    \/ arg'.full) => storage' = storage
          /\ res'.op = "getLogs" =>
                /\ (~storage.present \/ Undecryptable(storage)) =>
                      res'.val = <<>>
                /\ (res # <<>> /\ res.op = "clearLogs") => res'.val = <<>>]_vars

\* C29 amended: no call propagates an error; logEvent returns its entry;
\* storeLogs leaves the item unchanged when the storage cannot be read, the
\* array cannot be encrypted or the item cannot be written, and otherwise
\* stores the last 100 of the readable entries and the new one, so that an
\* item that cannot be decrypted is replaced by the new entry alone;
\* getLogs returns [] without an item, with an item that cannot be
\* decrypted, and after clearLogs.
C29_NoErrorEscapes ==
    [][calls' # calls =>
          /\ error' = "none"
          /\ res'.op = "logEvent" =>
                /\ res'.val = arg'.logs
                /\ IF \/ storageDenied
                      \/ EncryptFails(storage, arg'.logs)
                      \/ arg'.full
                   THEN storage' = storage
                   ELSE /\ GetLogs(storage')
                             = Latest(GetLogs(storage) \o arg'.logs)
                        /\ Undecryptable(storage) =>
                              /\ storage' # storage
                              /\ GetLogs(storage') = arg'.logs
          /\ res'.op = "getLogs" =>
                /\ (~storage.present \/ Undecryptable(storage)) =>
                      res'.val = <<>>
                /\ (res # <<>> /\ res.op = "clearLogs") => res'.val = <<>>
                /\ storage' = storage]_vars

\* C29 witness: logEvent has returned its entry after storeLogs replaced an
\* item that decryptData could not read, following a call that failed to
\* write
C29_Witness ==
    /\ calls >= 2
    /\ res # <<>> /\ res.op = "logEvent"
    /\ res.val = arg.logs
    /\ Undecryptable(arg.item)
    /\ storage # arg.item
    /\ GetLogs(storage) = arg.logs
    /\ error = "none"

\* the (type, description) pair of an issue
PairOf(issue) == <<issue.type, issue.description>>

\* the positions of the issues of s with the pair q
PositionsOf(s, q) == {k \in DOMAIN s : PairOf(s[k]) = q}

\* the smallest element of a non-empty set of numbers
Least(S) == CHOOSE k \in S : \A j \in S : k <= j

RECURSIVE SumOccurrences(_)
SumOccurrences(s) ==
    IF s = <<>> THEN 0 ELSE Head(s).occurrences + SumOccurrences(Tail(s))

\* C30: for the issues that analyzeLogs detects in a log array,
\* deduplicateIssues returns one record for each (type, description) pair
\* of the input and no other, no pair twice, in the order in which the
\* pairs first occur in the input; the occurrences of a record is the
\* number of input issues with its pair, the occurrences add up to the
\* length of the input, and the input array is left as it was.
C30_Deduplicate ==
    arg # <<>> =>
        /\ {PairOf(res.issues[p]) : p \in DOMAIN res.issues}
              = {PairOf(arg.issues[k]) : k \in DOMAIN arg.issues}
        /\ \A p \in DOMAIN res.issues : \A q \in DOMAIN res.issues :
              p < q =>
                 /\ PairOf(res.issues[p]) # PairOf(res.issues[q])
                 /\ Least(PositionsOf(arg.issues, PairOf(res.issues[p])))
                       < Least(PositionsOf(arg.issues, PairOf(res.issues[q])))
        /\ \A p \in DOMAIN res.issues :
              res.issues[p].occurrences
                 = Cardinality(PositionsOf(arg.issues, PairOf(res.issues[p])))
        /\ SumOccurrences(res.issues) = Len(arg.issues)
        /\ res.input = arg.issues

\* C30 witness: of three issues the first and the third have the same pair
\* and the second has the same description with another type; the result
\* holds two records, the first with 2 occurrences
C30_Witness ==
    /\ arg # <<>>
    /\ Len(arg.issues) = 3
    /\ PairOf(arg.issues[1]) = PairOf(arg.issues[3])
    /\ arg.issues[2].description = arg.issues[1].description
    /\ arg.issues[2].type # arg.issues[1].type
    /\ Len(res.issues) = 2
    /\ res.issues[1].occurrences = 2
    /\ res.issues[2].occurrences = 1

====
